---- MODULE Spec2Model ----
(***************************************************************************)
(* Model of src/price_scrapers.py: the concurrent scrape orchestrator      *)
(* (scrape_prices_concurrently), the store dispatch (get_live_price), the  *)
(* three site adapters and the price text normalizer (clean_price_text).   *)
(*                                                                         *)
(* Texts (store names, element texts, price strings) are sequences of      *)
(* one-character strings, so that lower(), strip(), substring tests and    *)
(* the regular expressions of the source are computed, not assumed.        *)
(* Numbers are exact decimals scaled by Scale = 10^MaxFrac.                *)
(***************************************************************************)
EXTENDS Integers, Sequences, FiniteSets, TLC

(***************************************************************************)
(* Bounds of the model.                                                    *)
(***************************************************************************)
\* Largest number of requests in one batch.
MaxReq == 2
\* Number of fractional digits the scaled decimals keep exactly; no text of
\* the model writes more fractional digits than this.
MaxFrac == 3

\* The longest of the enumerated arguments of clean_price_text.
MaxTextLen == 3

(***************************************************************************)
(* Characters and texts.                                                   *)
(***************************************************************************)
Digits == <<"0", "1", "2", "3", "4", "5", "6", "7", "8", "9">>

IsDigit(c) == \E d \in 1..10 : Digits[d] = c

DigitVal(c) == (CHOOSE d \in 1..10 : Digits[d] = c) - 1

\* str.strip() and the regex class \s: the whitespace of the model's texts.
IsSpace(c) == c \in {" ", "\n", "\t"}

Upper == <<"A", "B", "C", "D", "E", "F", "G", "H", "I", "J", "K", "L", "M",
           "N", "O", "P", "Q", "R", "S", "T", "U", "V", "W", "X", "Y", "Z">>

Lower == <<"a", "b", "c", "d", "e", "f", "g", "h", "i", "j", "k", "l", "m",
           "n", "o", "p", "q", "r", "s", "t", "u", "v", "w", "x", "y", "z">>

LowerChar(c) ==
    IF \E k \in 1..26 : Upper[k] = c
    THEN Lower[CHOOSE k \in 1..26 : Upper[k] = c]
    ELSE c

\* str.lower()
StrLower(t) == [k \in 1..Len(t) |-> LowerChar(t[k])]

\* t[i:j] of Python with 1-based inclusive bounds: clamped to the text,
\* empty when j < i.
Slice(t, i, j) ==
    LET lo == IF i < 1 THEN 1 ELSE i
        hi == IF j > Len(t) THEN Len(t) ELSE j
    IN  IF hi < lo THEN <<>> ELSE SubSeq(t, lo, hi)

\* whether sub occurs in t at position i
MatchAt(t, sub, i) ==
    /\ i >= 1
    /\ i + Len(sub) - 1 <= Len(t)
    /\ \A k \in 1..Len(sub) : t[i + k - 1] = sub[k]

\* Python's `sub in t`
Contains(t, sub) == \E i \in 1..(Len(t) + 1) : MatchAt(t, sub, i)

\* str.strip()
Strip(t) ==
    LET keep == {k \in 1..Len(t) : ~IsSpace(t[k])}
    IN  IF keep = {} THEN <<>>
        ELSE LET lo == CHOOSE k \in keep : \A m \in keep : k <= m
                 hi == CHOOSE k \in keep : \A m \in keep : m <= k
             IN  SubSeq(t, lo, hi)

\* .replace('\n', ' ').replace('\t', ' ')
ReplaceNlTab(t) ==
    [k \in 1..Len(t) |-> IF t[k] \in {"\n", "\t"} THEN " " ELSE t[k]]

(***************************************************************************)
(* Regular-expression pieces.  Positions are 1-based; a position one past  *)
(* the end of the text is Len(t) + 1.                                      *)
(***************************************************************************)
\* \d* from position i, greedy: the position just after the digit run.
RunEnd(t, i) ==
    IF \E k \in i..Len(t) : ~IsDigit(t[k])
    THEN CHOOSE k \in i..Len(t) :
            /\ ~IsDigit(t[k])
            /\ \A m \in i..(k - 1) : IsDigit(t[m])
    ELSE IF i > Len(t) + 1 THEN i ELSE Len(t) + 1

\* \s* from position i, greedy: the position just after the spaces.
SkipSpaces(t, i) ==
    IF \E k \in i..Len(t) : ~IsSpace(t[k])
    THEN CHOOSE k \in i..Len(t) :
            /\ ~IsSpace(t[k])
            /\ \A m \in i..(k - 1) : IsSpace(t[m])
    ELSE IF i > Len(t) + 1 THEN i ELSE Len(t) + 1

DigitAt(t, i) == i >= 1 /\ i <= Len(t) /\ IsDigit(t[i])

CharAt(t, i, c) == i >= 1 /\ i <= Len(t) /\ t[i] = c

\* \d+\.\d{2} anchored at i: the position just after the match, 0 if none.
\* \d+ is greedy and cannot give back digits, since "." must follow it.
DecimalEnd(t, i) ==
    LET e == RunEnd(t, i)
    IN  IF DigitAt(t, i) /\ CharAt(t, e, ".") /\ DigitAt(t, e + 1) /\ DigitAt(t, e + 2)
        THEN e + 3
        ELSE 0

\* \d+ anchored at i: the position just after the match, 0 if none.
IntegerEnd(t, i) == IF DigitAt(t, i) THEN RunEnd(t, i) ELSE 0

\* \d+\.?\d* anchored at i: the position just after the match, 0 if none.
LooseEnd(t, i) ==
    LET e == RunEnd(t, i)
    IN  IF ~DigitAt(t, i) THEN 0
        ELSE IF CharAt(t, e, ".") THEN RunEnd(t, e + 1)
        ELSE e

\* The least element of a non-empty set of positions (re.search is leftmost).
Leftmost(S) == CHOOSE i \in S : \A j \in S : i <= j

NoMatch == <<"nomatch">>

(***************************************************************************)
(* float(): the exact decimal value of a numeral d+ / d+. / d+.d*, scaled  *)
(* by Scale.                                                               *)
(***************************************************************************)
RECURSIVE Pow10(_)
Pow10(n) == IF n = 0 THEN 1 ELSE 10 * Pow10(n - 1)

Scale == Pow10(MaxFrac)

RECURSIVE DigitsValue(_)
DigitsValue(s) ==
    IF s = <<>> THEN 0
    ELSE 10 * DigitsValue(SubSeq(s, 1, Len(s) - 1)) + DigitVal(s[Len(s)])

FloatOf(s) ==
    LET e    == RunEnd(s, 1)
        ip   == Slice(s, 1, e - 1)
        fr   == Slice(s, e + 1, Len(s))
        frk  == Slice(fr, 1, MaxFrac)
    IN  DigitsValue(ip) * Scale + DigitsValue(frk) * Pow10(MaxFrac - Len(frk))

(***************************************************************************)
(* clean_price_text.                                                       *)
(***************************************************************************)
\* 0.01 and 999.99, scaled.
PriceMin == Scale \div 100

PriceMax == 99999 * (Scale \div 100)

InRangeNoUpper(v) == PriceMin <= v

\* 0.01 <= price_value <= 999.99
InRange(v) == PriceMin <= v /\ v <= PriceMax

\* re.search(prefix \s* (\d+\.\d{2}), t) when spaces, or re.search(prefix
\* (\d+\.\d{2}), t) otherwise: group 1, or NoMatch.  prefix is a literal.
SearchPrefixed(t, prefix, spaces, decimal) ==
    LET numAt(i) == IF spaces THEN SkipSpaces(t, i + Len(prefix)) ELSE i + Len(prefix)
        endAt(i) == IF decimal THEN DecimalEnd(t, numAt(i)) ELSE IntegerEnd(t, numAt(i))
        starts   == {i \in 1..Len(t) : MatchAt(t, prefix, i) /\ endAt(i) # 0}
    IN  IF starts = {} THEN NoMatch
        ELSE LET i == Leftmost(starts) IN Slice(t, numAt(i), endAt(i) - 1)

\* re.search((\d+\.\d{2})\s*\$, t) when decimal, re.search((\d+)\s*\$, t)
\* otherwise: group 1, or NoMatch.  \d+ cannot give back digits: what
\* follows it is never a digit.
SearchSuffixed(t, decimal) ==
    LET endAt(i) == IF decimal THEN DecimalEnd(t, i) ELSE IntegerEnd(t, i)
        starts   == {i \in 1..Len(t) :
                        endAt(i) # 0 /\ CharAt(t, SkipSpaces(t, endAt(i)), "$")}
    IN  IF starts = {} THEN NoMatch
        ELSE LET i == Leftmost(starts) IN Slice(t, i, endAt(i) - 1)

\* The eight entries of price_patterns, in the order of the list.
PricePattern(k, t) ==
    CASE k = 1 -> SearchPrefixed(t, <<"$">>, FALSE, TRUE)
      [] k = 2 -> SearchPrefixed(t, <<"$">>, FALSE, FALSE)
      [] k = 3 -> SearchSuffixed(t, TRUE)
      [] k = 4 -> SearchSuffixed(t, FALSE)
      [] k = 5 -> SearchPrefixed(t, <<"A", "U", "D">>, TRUE, TRUE)
      [] k = 6 -> SearchPrefixed(t, <<"A", "U", "D">>, TRUE, FALSE)
      [] k = 7 -> SearchPrefixed(t, <<>>, FALSE, TRUE)
      [] k = 8 -> SearchPrefixed(t, <<>>, FALSE, FALSE)

NumPatterns == 8

\* re.findall(r'\d+\.?\d*', t) from position i on: the matches, in order.
RECURSIVE FindAllNumbers(_, _)
FindAllNumbers(t, i) ==
    IF i > Len(t) THEN <<>>
    ELSE IF LooseEnd(t, i) = 0 THEN FindAllNumbers(t, i + 1)
    ELSE <<Slice(t, i, LooseEnd(t, i) - 1)>> \o FindAllNumbers(t, LooseEnd(t, i))

\* Python's None where a text is expected (no text is <<"None">>: the
\* elements of a text are single characters).
None == <<"None">>

\* An optional number: NoPrice is Python's None, Some(v) the float v.
NoPrice == <<>>

Some(v) == <<v>>

\* A fallback that looks at the first number only.
FirstNumberOnly(nums) ==
    IF nums = <<>> THEN NoPrice
    ELSE IF InRange(FloatOf(Head(nums))) THEN Some(FloatOf(Head(nums)))
    ELSE NoPrice

\* The fallback loop: the first value of nums inside the range, or None.
RECURSIVE FirstInRange(_)
FirstInRange(nums) ==
    IF nums = <<>> THEN NoPrice
    ELSE IF InRange(FloatOf(Head(nums))) THEN Some(FloatOf(Head(nums)))
    ELSE FirstInRange(Tail(nums))

\* The loop over price_patterns ending at the first pattern that matches.
RECURSIVE CleanFromFirstMatch(_, _)
CleanFromFirstMatch(k, t) ==
    IF k > NumPatterns THEN FirstInRange(FindAllNumbers(t, 1))
    ELSE IF PricePattern(k, t) # NoMatch
         THEN IF InRange(FloatOf(PricePattern(k, t)))
              THEN Some(FloatOf(PricePattern(k, t)))
              ELSE NoPrice
         ELSE CleanFromFirstMatch(k + 1, t)

\* The loop over price_patterns from pattern k on, then the fallback.
RECURSIVE CleanFrom(_, _)
CleanFrom(k, t) ==
    IF k > NumPatterns THEN FirstInRange(FindAllNumbers(t, 1))
    ELSE IF PricePattern(k, t) # NoMatch /\ InRange(FloatOf(PricePattern(k, t)))
         THEN Some(FloatOf(PricePattern(k, t)))
         ELSE CleanFrom(k + 1, t)

\* clean_price_text(price_text); price_text is None or a text.
clean_price_text(price_text) ==
    IF price_text = None \/ price_text = <<>> THEN NoPrice
    ELSE CleanFrom(1, ReplaceNlTab(Strip(price_text)))

(***************************************************************************)
(* Pages.  What a loaded page answers to the queries of an adapter:        *)
(*   sel    : per selector of a selector list, in the order of the list,   *)
(*            the text_content() of the elements query_selector_all        *)
(*            returns, in document order (a selector beyond the sequence   *)
(*            matches nothing);                                            *)
(*   all    : the same for the generic selector ('span, div, ...');        *)
(*   json   : the numerals the json_patterns find in page.content(), in    *)
(*            pattern order, then match order;                             *)
(*   legacy : per legacy selector, the text of the element                 *)
(*            wait_for_selector returns;                                   *)
(*   lead   : the text of the element the Woolworths price-lead selector    *)
(*            returns;                                                     *)
(*   title  : page.title().                                                *)
(* A text is None when text_content() returns None, and Raised when the    *)
(* call raises (a timeout, a detached element); a list is RaisedList when  *)
(* the query itself raises.                                                *)
(***************************************************************************)
Raised == <<"Raised">>

RaisedList == <<Raised>>

IsText(x) == x # None /\ x # Raised

\* `if text and ...`: a non-empty string
Truthy(x) == IsText(x) /\ x # <<>>

\* re.search(r'\$(\d+\.?\d*)', t): group 1, or NoMatch
SearchDollarLoose(t) ==
    LET starts == {i \in 1..Len(t) : CharAt(t, i, "$") /\ LooseEnd(t, i + 1) # 0}
    IN  IF starts = {} THEN NoMatch
        ELSE LET i == Leftmost(starts) IN Slice(t, i + 1, LooseEnd(t, i + 1) - 1)

\* The inner loop `for element in elements` of a selector scan: the stripped
\* text of the first element the condition takes, or None; ok[k] tells
\* whether the condition takes elems[k].  A text_content() that raises ends
\* the scan of this list with nothing (the except clause is outside the
\* loop) unless skipRaised (the except clause is inside it).
FirstAccepted(elems, ok, skipRaised) ==
    LET stops == {k \in 1..Len(elems) : elems[k] = Raised}
        limit == IF skipRaised \/ stops = {} THEN Len(elems) ELSE Leftmost(stops) - 1
        hits  == {k \in 1..limit : elems[k] # Raised /\ ok[k]}
    IN  IF hits = {} THEN None ELSE Strip(elems[Leftmost(hits)])

\* The outer loop `for selector in selectors`: the first selector whose scan
\* finds a text decides; a query that raises is skipped.  ok[k] are the
\* verdicts of the condition on the elements of selector k.
ScanSelectors(sel, ok) ==
    LET hits == {k \in 1..Len(sel) :
                    sel[k] # RaisedList /\ FirstAccepted(sel[k], ok[k], FALSE) # None}
    IN  IF hits = {} THEN None
        ELSE FirstAccepted(sel[Leftmost(hits)], ok[Leftmost(hits)], FALSE)

(***************************************************************************)
(* Results.  A message is its literal part and the value interpolated at   *)
(* its end (<<>> when there is none).                                       *)
(***************************************************************************)
Txt_IGA == <<"I", "G", "A">>

Txt_Coles == <<"C", "o", "l", "e", "s">>

Txt_Woolworths == <<"W", "o", "o", "l", "w", "o", "r", "t", "h", "s">>

Msg(pre, arg) == [pre |-> pre, arg |-> arg]

\* The dict every adapter starts from.
InitialResult(store) ==
    [price |-> NoPrice, currency |-> "$", status |-> "error",
     message |-> Msg("", <<>>), store |-> store]

SuccessWithoutStatus(result, v) ==
    [result EXCEPT !.price = Some(v),
                   !.message = Msg("Price successfully scraped", <<>>)]

Success(result, v) ==
    [result EXCEPT !.price = Some(v), !.status = "success",
                   !.message = Msg("Price successfully scraped", <<>>)]

WithMessage(result, pre, arg) == [result EXCEPT !.message = Msg(pre, arg)]

(***************************************************************************)
(* scrape_iga_product_price: the selector loop and the parse of its text.  *)
(***************************************************************************)
IgaMaxLen == 20

IgaAcceptAnyLength(text) == Truthy(text) /\ Contains(text, <<"$">>)

\* `if text and '$' in text and len(text.strip()) < 20`
IgaAccept(text) ==
    Truthy(text) /\ Contains(text, <<"$">>) /\ Len(Strip(text)) < IgaMaxLen

IgaPriceText(pg) ==
    ScanSelectors(pg.sel,
        [k \in 1..Len(pg.sel) |->
            [j \in 1..Len(pg.sel[k]) |->
                pg.sel[k][j] # Raised /\ IgaAccept(pg.sel[k][j])]])

\* What each selector of price_selectors finds when it is queried.
IgaStrategyTexts(pg) ==
    [k \in 1..Len(pg.sel) |->
        IF pg.sel[k] = RaisedList THEN None
        ELSE FirstAccepted(pg.sel[k],
                 [j \in 1..Len(pg.sel[k]) |->
                     pg.sel[k][j] # Raised /\ IgaAccept(pg.sel[k][j])], FALSE)]

\* The parse of lines 106-108: the number after the first "$" that has one.
IgaParse(text) ==
    IF SearchDollarLoose(text) # NoMatch
    THEN Some(FloatOf(SearchDollarLoose(text)))
    ELSE NoPrice

\* An adapter that scans the page source when no selector gave a text.
IgaResultMarkupScan(pg) ==
    LET result     == InitialResult(Txt_IGA)
        price_text == IF IgaPriceText(pg) # None /\ IgaPriceText(pg) # <<>>
                      THEN IgaPriceText(pg)
                      ELSE IF pg.json # RaisedList /\ pg.json # <<>>
                      THEN <<"$">> \o pg.json[1]
                      ELSE None
    IN  IF price_text # None /\ price_text # <<>>
        THEN IF SearchDollarLoose(price_text) # NoMatch
             THEN Success(result, FloatOf(SearchDollarLoose(price_text)))
             ELSE WithMessage(result, "Could not parse price from text: ", price_text)
        ELSE WithMessage(result, "Price element not found on page", <<>>)

\* Lines 104-115: the parse of the text the selector loop found.
IgaResult(pg) ==
    LET result     == InitialResult(Txt_IGA)
        price_text == IgaPriceText(pg)
    IN  IF price_text # None /\ price_text # <<>>
        THEN IF SearchDollarLoose(price_text) # NoMatch
             THEN Success(result, FloatOf(SearchDollarLoose(price_text)))
             ELSE WithMessage(result, "Could not parse price from text: ", price_text)
        ELSE WithMessage(result, "Price element not found on page", <<>>)

(***************************************************************************)
(* scrape_coles_product_price: the four strategies and the parse.          *)
(***************************************************************************)
ColesMaxLen == 50

\* f"{n}" of a natural number
RECURSIVE NatText(_)
NatText(n) ==
    IF n < 10 THEN <<Digits[n + 1]>>
    ELSE NatText(n \div 10) \o <<Digits[(n % 10) + 1]>>

\* f"${price_value:.2f}" of a scaled value (to the nearest cent; no value of
\* the model lies halfway between two cents)
FormatDollars(v) ==
    LET cents == (v * 100 + (Scale \div 2)) \div Scale
    IN  <<"$">> \o NatText(cents \div 100) \o <<".">>
        \o <<Digits[((cents \div 10) % 10) + 1], Digits[(cents % 10) + 1]>>

\* Strategy 1: modern selectors
ColesModernAccept(text) ==
    /\ Truthy(text)
    /\ Contains(text, <<"$">>)
    /\ Len(Strip(text)) < ColesMaxLen
    /\ SearchDollarLoose(text) # NoMatch

PromoWords ==
    { <<"s", "a", "v", "e">>, <<"o", "f", "f">>,
      <<"d", "i", "s", "c", "o", "u", "n", "t">>, <<"w", "a", "s">>,
      <<"r", "r", "p">>, <<"u", "s", "u", "a", "l">> }

\* Strategy 2: any element containing a price pattern
ColesContentAccept(text) ==
    /\ Truthy(text)
    /\ Contains(text, <<"$">>)
    /\ SearchDollarLoose(text) # NoMatch
    /\ Len(Strip(text)) < ColesMaxLen
    /\ ~\E word \in PromoWords : Contains(StrLower(text), word)

\* Strategy 3: the first numeral of the page source inside [0.50, 200]
ColesJsonText(json) ==
    LET hits == {k \in 1..Len(json) :
                    /\ (Scale \div 2) <= FloatOf(json[k])
                    /\ FloatOf(json[k]) <= 200 * Scale}
    IN  IF json = RaisedList \/ hits = {} THEN None
        ELSE FormatDollars(FloatOf(json[Leftmost(hits)]))

\* Strategy 4: legacy selectors
ColesLegacyAccept(text) == Truthy(text) /\ Contains(text, <<"$">>)

\* `if not price_text`
Falsy(x) == x = None \/ x = <<>>

\* What each of the four strategies finds when it runs: None or a text.
ColesStrategyTexts(pg) ==
    << ScanSelectors(pg.sel,
           [k \in 1..Len(pg.sel) |->
               [j \in 1..Len(pg.sel[k]) |->
                   pg.sel[k][j] # Raised /\ ColesModernAccept(pg.sel[k][j])]]),
       IF pg.all = RaisedList THEN None
       ELSE FirstAccepted(pg.all,
                [k \in 1..Len(pg.all) |->
                    pg.all[k] # Raised /\ ColesContentAccept(pg.all[k])], TRUE),
       ColesJsonText(pg.json),
       FirstAccepted(pg.legacy,
           [k \in 1..Len(pg.legacy) |->
               pg.legacy[k] # Raised /\ ColesLegacyAccept(pg.legacy[k])], TRUE) >>

\* The strategies tried from the legacy selectors back to the modern ones.
ColesPriceTextLegacyFirst(pg) ==
    LET s == ColesStrategyTexts(pg)
    IN  IF ~Falsy(s[4]) THEN s[4]
        ELSE IF ~Falsy(s[3]) THEN s[3]
        ELSE IF ~Falsy(s[2]) THEN s[2]
        ELSE s[1]

\* Strategies 2, 3 and 4 run `if not price_text`: the first strategy that
\* finds a text decides.
ColesPriceText(pg) ==
    LET s == ColesStrategyTexts(pg)
    IN  IF ~Falsy(s[1]) THEN s[1]
        ELSE IF ~Falsy(s[2]) THEN s[2]
        ELSE IF ~Falsy(s[3]) THEN s[3]
        ELSE s[4]

\* An adapter whose message carries the title whenever page.title()
\* returns one.
ColesResultTitleAlways(pg) ==
    LET result     == InitialResult(Txt_Coles)
        price_text == ColesPriceText(pg)
        cleaned    == clean_price_text(price_text)
    IN  IF ~Falsy(price_text)
        THEN IF cleaned # NoPrice /\ cleaned # Some(0)
             THEN Success(result, cleaned[1])
             ELSE WithMessage(result, "Could not parse price from text: ", price_text)
        ELSE IF pg.title = Raised
             THEN WithMessage(result,
                    "Price element not found and could not determine page status", <<>>)
        ELSE WithMessage(result, "Not on Coles page. Page title: ", pg.title)

\* Lines 305-327: the parse of the text the strategies found, or the
\* message about the page when they found none.
ColesResult(pg) ==
    LET result     == InitialResult(Txt_Coles)
        price_text == ColesPriceText(pg)
        cleaned    == clean_price_text(price_text)
    IN  IF ~Falsy(price_text)
        THEN IF cleaned # NoPrice /\ cleaned # Some(0)
             THEN Success(result, cleaned[1])
             ELSE WithMessage(result, "Could not parse price from text: ", price_text)
        ELSE IF pg.title = Raised
             THEN WithMessage(result,
                    "Price element not found and could not determine page status", <<>>)
        ELSE IF ~Contains(StrLower(pg.title), StrLower(Txt_Coles))
             THEN WithMessage(result, "Not on Coles page. Page title: ", pg.title)
        ELSE WithMessage(result,
                    "Price element not found on page after trying all strategies", <<>>)

(***************************************************************************)
(* scrape_woolworths_product_price: the two strategies and the parse.      *)
(***************************************************************************)
WoolScanLimit == 20

WoolMaxLen == 15

\* Primary strategy: the price-lead selector.  A text without "$" is kept.
WoolLeadText(lead) ==
    IF lead = Raised THEN None
    ELSE IF /\ Truthy(lead)
            /\ Contains(lead, <<"$">>)
            /\ \/ Contains(lead, <<"/">>)
               \/ Contains(StrLower(lead), <<"s", "a", "v", "e">>)
         THEN None
    ELSE lead

WoolFallbackAccept(text) ==
    /\ Truthy(text)
    /\ Contains(text, <<"$">>)
    /\ Len(text) < WoolMaxLen
    /\ SearchPrefixed(text, <<"$">>, FALSE, TRUE) # NoMatch
    /\ 2 * Scale <= FloatOf(SearchPrefixed(text, <<"$">>, FALSE, TRUE))
    /\ FloatOf(SearchPrefixed(text, <<"$">>, FALSE, TRUE)) <= 5 * Scale

\* What the primary and the fallback strategy find when they run.
WoolStrategyTexts(pg) ==
    << WoolLeadText(pg.lead),
       IF pg.all = RaisedList THEN None
       ELSE FirstAccepted(Slice(pg.all, 1, WoolScanLimit),
                [k \in 1..Len(pg.all) |->
                    pg.all[k] # Raised /\ WoolFallbackAccept(pg.all[k])], FALSE) >>

\* The fallback runs `if not price_text`.
WoolPriceText(pg) ==
    LET s == WoolStrategyTexts(pg)
    IN  IF ~Falsy(s[1]) THEN s[1]
        ELSE IF s[2] # None THEN s[2]
        ELSE s[1]

\* An adapter that reports a text it cannot parse as a missing element.
WoolResultDropsText(pg) ==
    LET result     == InitialResult(Txt_Woolworths)
        price_text == WoolPriceText(pg)
        cleaned    == clean_price_text(price_text)
    IN  IF ~Falsy(price_text) /\ cleaned # NoPrice /\ cleaned # Some(0)
        THEN Success(result, cleaned[1])
        ELSE WithMessage(result, "Price element not found", <<>>)

\* Lines 771-781: the parse of the text the strategies found.
WoolResult(pg) ==
    LET result     == InitialResult(Txt_Woolworths)
        price_text == WoolPriceText(pg)
        cleaned    == clean_price_text(price_text)
    IN  IF ~Falsy(price_text)
        THEN IF cleaned # NoPrice /\ cleaned # Some(0)
             THEN Success(result, cleaned[1])
             ELSE WithMessage(result, "Could not parse price from text: ", price_text)
        ELSE WithMessage(result, "Price element not found", <<>>)

(***************************************************************************)
(* The texts, pages and store names of the model.                          *)
(***************************************************************************)
T_Price == <<"$", "1", "2", ".", "3", "4">>

T_Big == <<"$", "1", "5", "0", "0", ".", "0", "0">>

T_Long == <<"P", "r", "i", "c", "e", "s", " ", "i", "n", " ", "$", " ", "i",
            "n", "c", "l", ".", " ", "a", "l", "l", " ", "t",
            "a", "x", "e", "s">>

T_Save == <<"S", "a", "v", "e", " ", "$", "2", ".", "0", "0">>

T_999 == <<"$", "9", ".", "9", "9">>

T_250 == <<" ", "$", "2", ".", "5", "0", " ">>

T_Unit == <<"$", "3", ".", "5", "0", " ", "/", " ", "1", "0", "0", "g">>

T_Was5 == <<"w", "a", "s", " ", "$", "5", ".", "0", "0">>

T_Was3 == <<"w", "a", "s", " ", "$", "3">>

T_Each == <<"$", " ", "e", "a", "c", "h">>

T_SoldOut == <<"S", "o", "l", "d", " ", "o", "u", "t">>

N_1234 == <<"1", "2", ".", "3", "4">>

N_1500 == <<"1", "5", "0", "0", ".", "0", "0">>

N_025 == <<"0", ".", "2", "5">>

N_35 == <<"3", ".", "5">>

Title_Denied == <<"D", "e", "n", "i", "e", "d">>

\* A product page showing one price everywhere.
PgPrice ==
    [sel |-> << <<T_Price>> >>, all |-> <<T_Price>>, json |-> <<N_1234>>,
     legacy |-> <<T_Price>>, lead |-> T_Price, title |-> Txt_Coles]

\* A page whose only price is above 999.99, behind a paragraph-long text.
PgBig ==
    [sel |-> << <<T_Long>>, <<T_Big>> >>, all |-> <<T_Big>>, json |-> <<N_1500>>,
     legacy |-> <<>>, lead |-> T_Big, title |-> Title_Denied]

\* A page with promotional and unit prices, failing queries and no title.
PgPromo ==
    [sel |-> <<RaisedList>>, all |-> <<T_Save, Raised, T_999, T_250>>,
     json |-> RaisedList, legacy |-> <<Raised>>, lead |-> T_Unit, title |-> Raised]

\* A page whose price is only in its embedded data.
PgJson ==
    [sel |-> <<>>, all |-> <<None, T_Was5>>, json |-> <<N_025, N_35>>,
     legacy |-> <<Raised, T_Was3>>, lead |-> T_SoldOut, title |-> Txt_Coles]

\* A page that only the legacy selectors match.
PgLegacy ==
    [sel |-> << <<None, T_Each>> >>, all |-> RaisedList, json |-> <<>>,
     legacy |-> <<T_Was3>>, lead |-> Raised, title |-> Title_Denied]

\* Pages without any price: a block page, and a Coles page.
PgDenied ==
    [sel |-> <<>>, all |-> <<>>, json |-> <<>>, legacy |-> <<>>,
     lead |-> None, title |-> Title_Denied]

PgNoPrice ==
    [sel |-> <<>>, all |-> <<>>, json |-> <<>>, legacy |-> <<>>,
     lead |-> None, title |-> Txt_Coles]

\* A page whose first candidate text is not a price while later elements,
\* selectors and strategies have one.
PgMixed ==
    [sel |-> << <<T_Each, T_Big>>, <<T_Price>> >>, all |-> <<T_Big, T_250>>,
     json |-> <<N_35>>, legacy |-> <<T_Price>>, lead |-> T_Big, title |-> Txt_Coles]

T_450 == <<"$", "4", ".", "5", "0">>

\* A page whose price-lead element shows the former price.
PgWas ==
    [sel |-> <<>>, all |-> <<>>, json |-> <<>>, legacy |-> <<>>,
     lead |-> T_Was5, title |-> Txt_Coles]

\* A page without a price-lead element whose generic elements show two
\* prices, the higher one first.
PgTwo ==
    [sel |-> <<>>, all |-> <<T_450, T_250>>, json |-> <<>>, legacy |-> <<>>,
     lead |-> None, title |-> Txt_Coles]

\* A URL is the name of the page the site serves for it.
Urls == {"price", "big", "promo", "json", "legacy", "denied", "noprice", "mixed",
         "was", "two"}

PageAt(url) ==
    CASE url = "price" -> PgPrice
      [] url = "big" -> PgBig
      [] url = "promo" -> PgPromo
      [] url = "json" -> PgJson
      [] url = "legacy" -> PgLegacy
      [] url = "denied" -> PgDenied
      [] url = "noprice" -> PgNoPrice
      [] url = "mixed" -> PgMixed
      [] url = "was" -> PgWas
      [] url = "two" -> PgTwo

Pages == {PageAt(url) : url \in Urls}

S_Mars == <<"M", "a", "r", "s">>

S_Both == <<"c", "o", "l", "e", "s", " ", "I", "G", "A">>

\* Store strings a caller passes: the three names as the CSV data writes
\* them, an unsupported one, and one naming two stores.
StoreNames == {Txt_IGA, Txt_Coles, Txt_Woolworths, S_Mars, S_Both}

\* str(e) of the exceptions the browser raises, one per operation.
E_Launch == <<"l", "a", "u", "n", "c", "h">>

E_Ctx == <<"c", "t", "x">>

E_Page == <<"p", "a", "g", "e">>

E_Goto == <<"g", "o", "t", "o">>

E_Wait == <<"w", "a", "i", "t">>

E_ClosePage == <<"p", "c", "l", "o", "s", "e">>

E_CloseCtx == <<"c", "c", "l", "o", "s", "e">>

E_Unpack == <<"u", "n", "p", "a", "c", "k">>

(***************************************************************************)
(* get_live_price: the dispatch on the store string.                       *)
(***************************************************************************)
K_iga == <<"i", "g", "a">>

K_coles == <<"c", "o", "l", "e", "s">>

K_woolworths == <<"w", "o", "o", "l", "w", "o", "r", "t", "h", "s">>

\* The adapters the if/elif chain calls for a store string: the sequence of
\* their names, in call order (empty: the else branch).
DispatchEveryMatch(store) ==
    (IF Contains(StrLower(store), K_iga) THEN <<"iga">> ELSE <<>>)
    \o (IF Contains(StrLower(store), K_coles) THEN <<"coles">> ELSE <<>>)
    \o (IF Contains(StrLower(store), K_woolworths) THEN <<"woolworths">> ELSE <<>>)

Dispatch(store) ==
    IF Contains(StrLower(store), K_iga) THEN <<"iga">>
    ELSE IF Contains(StrLower(store), K_coles) THEN <<"coles">>
    ELSE IF Contains(StrLower(store), K_woolworths) THEN <<"woolworths">>
    ELSE <<>>

UnsupportedResultRawStore(store) ==
    [price |-> NoPrice, currency |-> "$", status |-> "error",
     message |-> Msg("Unsupported store: ", store), store |-> store]

\* The dict of the else branch; store is the caller's string.
UnsupportedResult(store) ==
    [price |-> NoPrice, currency |-> "$", status |-> "error",
     message |-> Msg("Unsupported store: ", StrLower(store)), store |-> StrLower(store)]

\* The 'store' literal of each adapter's result.
AdapterStore(adapter) ==
    CASE adapter = "iga" -> Txt_IGA
      [] adapter = "coles" -> Txt_Coles
      [] adapter = "woolworths" -> Txt_Woolworths

\* What each adapter makes of the page at each URL.
IgaResultAt == [url \in Urls |-> IgaResult(PageAt(url))]

ColesResultAt == [url \in Urls |-> ColesResult(PageAt(url))]

WoolResultAt == [url \in Urls |-> WoolResult(PageAt(url))]

\* The candidate texts of an adapter on a page, in the order of its
\* strategies, and what the adapter's parse makes of a text.
StrategyTexts(adapter, pg) ==
    CASE adapter = "iga" -> IgaStrategyTexts(pg)
      [] adapter = "coles" -> ColesStrategyTexts(pg)
      [] adapter = "woolworths" -> WoolStrategyTexts(pg)

\* The local price_text of an adapter once its strategies have run.
PriceText(adapter, pg) ==
    CASE adapter = "iga" -> IgaPriceText(pg)
      [] adapter = "coles" -> ColesPriceText(pg)
      [] adapter = "woolworths" -> WoolPriceText(pg)

Normalized(adapter, text) ==
    IF adapter = "iga" THEN IgaParse(text) ELSE clean_price_text(text)

AdapterResult(adapter, url) ==
    CASE adapter = "iga" -> IgaResultAt[url]
      [] adapter = "coles" -> ColesResultAt[url]
      [] adapter = "woolworths" -> WoolResultAt[url]

(***************************************************************************)
(* State.                                                                  *)
(*   requests      urls_and_stores, a list of (url, store)                 *)
(*   badEntry      0, or the position of the first entry of the list that  *)
(*                 is not a pair (the unpacking of line 1053 raises there) *)
(*   pc            where scrape_prices_concurrently is                     *)
(*   browser       the shared browser: "none", "open", "closed"            *)
(*   launch        "none", "ok", "failed": how firefox.launch ended        *)
(*   browserCloses number of calls of browser.close()                      *)
(*   task          per request, the coroutine get_live_price(...)          *)
(*   doneOrder     the requests in the order their tasks completed         *)
(*   results       the list returned to the caller                         *)
(*   raisedExc     the exception raised to the caller, None if none        *)
(*   lateOps       whether some browser, context or page operation was     *)
(*                 issued on a closed browser or a closed context          *)
(*   modal         a call of handle_iga_modal or handle_woolworths_modal   *)
(*   clean         a call of clean_price_text                              *)
(* browser.close() and the exit of async_playwright() are taken to         *)
(* succeed.                                                                *)
(***************************************************************************)
VARIABLES requests, badEntry, pc, browser, launch, browserCloses, task,
          doneOrder, results, raisedExc, lateOps, created, modal, clean, sync

vars == <<requests, badEntry, pc, browser, launch, browserCloses, task,
          doneOrder, results, raisedExc, lateOps, created, modal, clean, sync>>

NoResult == InitialResult(<<>>)

\* How a coroutine ended: kind "none" (not yet), "ret" (returned res) or
\* "exc" (raised an exception whose str() is exc).
NoOutcome == [kind |-> "none", res |-> NoResult, exc |-> <<>>]

Returned(res) == [kind |-> "ret", res |-> res, exc |-> <<>>]

Raise(exc) == [kind |-> "exc", res |-> NoResult, exc |-> exc]

\* A coroutine that has not been created.  pc is the await it is at;
\* adapters are the adapters get_live_price called; ctx and page are the
\* context and the page of the adapter call ("none", "open", "closed",
\* "close_failed"); navs counts the page.goto calls, attempts those for the
\* product URL; home is how the visit of the homepage ended and nav how the
\* navigation to the product URL ended ("none", "ok", "failed");
\* modalCalls counts the calls of a modal handler;
\* extracted tells whether the extraction strategies ran; result is the
\* adapter's local dict; out is how the coroutine ended.
NoTask ==
    [pc |-> "none", adapters |-> <<>>, ctx |-> "none", page |-> "none",
     navs |-> 0, attempts |-> 0, home |-> "none", nav |-> "none",
     modalCalls |-> 0,
     extracted |-> FALSE, result |-> NoResult, out |-> NoOutcome]

N == Len(requests)

Request(url, store) == [url |-> url, store |-> store]

\* The requests of the batches: the URL of a product page, for each of the
\* three stores and for an unsupported one.
BatchRequests ==
    {Request(url, store) : url \in {"price"},
                           store \in {Txt_IGA, Txt_Coles, Txt_Woolworths, S_Mars}}

\* The requests of get_live_price_sync: any URL for any store.
SyncRequests == {Request(url, store) : url \in Urls, store \in StoreNames}

\* get_live_price_sync passes a list of one request.
SyncBatch == 1

\* No call of a modal handler: handler is the function called, pc the
\* sub-strategy it is in, k the selector of the list it is at, handled the
\* local modal_handled, waited whether the initial wait returned, found
\* whether some selector gave a visible element, clicks, keys and
\* bodyClicks the calls of element.click(), page.keyboard.press() and
\* page.click('body') issued, swallowed whether a call raised inside the
\* handler, steps the sub-strategies entered, in order.
NoModal ==
    [handler |-> "none", pc |-> "idle", k |-> 0, handled |-> FALSE,
     waited |-> FALSE, found |-> FALSE, clicks |-> 0, keys |-> 0,
     bodyClicks |-> 0, swallowed |-> FALSE, steps |-> <<>>]

\* No call of clean_price_text: price_text is the argument, value what the
\* call returned.
NoClean == [pc |-> "idle", price_text |-> None, value |-> NoPrice]

\* The objects made so far: browsers counts the calls of firefox.launch
\* that returned a browser, contexts those of browser.new_context, pages
\* those of context.new_page.
NoneCreated == [browsers |-> 0, contexts |-> 0, pages |-> 0]

\* No call of get_live_price_sync: pc is "called" while the call runs
\* scrape_prices_concurrently, "done" once it returned result and "raised"
\* had it raised.
NoSync == [pc |-> "idle", result |-> NoResult]

\* The variables the batch leaves alone.
Aside == <<modal, clean, sync>>

InitRest ==
    /\ pc = "start"
    /\ browser = "none"
    /\ launch = "none"
    /\ browserCloses = 0
    /\ task = [i \in 1..Len(requests) |-> NoTask]
    /\ doneOrder = <<>>
    /\ results = <<>>
    /\ raisedExc = None
    /\ lateOps = FALSE
    /\ created = NoneCreated

\* A caller's batch of at most MaxReq requests.
Init ==
    /\ requests \in UNION {[1..n -> BatchRequests] : n \in 0..MaxReq}
    /\ badEntry \in 0..Len(requests)
    /\ InitRest
    /\ modal = NoModal
    /\ clean = NoClean
    /\ sync = NoSync

\* The batch of get_live_price_sync.
InitSync ==
    /\ requests \in [1..SyncBatch -> SyncRequests]
    /\ badEntry = 0
    /\ InitRest
    /\ modal = NoModal
    /\ clean = NoClean
    /\ sync = [NoSync EXCEPT !.pc = "called"]

(***************************************************************************)
(* scrape_prices_concurrently.                                             *)
(***************************************************************************)
LaunchFailedSwallowed ==
    /\ pc = "start"
    /\ launch' = "failed"
    /\ task' = [i \in 1..N |-> [NoTask EXCEPT !.pc = "ready"]]
    /\ pc' = "gather"
    /\ UNCHANGED <<requests, badEntry, browser, browserCloses, doneOrder,
                   results, raisedExc, lateOps>>
    /\ UNCHANGED <<created, Aside>>

\* firefox.launch raises: the exception leaves the function (the try block
\* has not been entered).
LaunchFailed ==
    /\ pc = "start"
    /\ launch' = "failed"
    /\ raisedExc' = E_Launch
    /\ pc' = "raised"
    /\ UNCHANGED <<requests, badEntry, browser, browserCloses, task, doneOrder,
                   results, lateOps>>
    /\ UNCHANGED <<created, Aside>>

\* firefox.launch returns; the loop of lines 1053-1055 creates the
\* coroutines, and gather schedules them, or the unpacking of an entry that
\* is not a pair raises and control passes to the finally block.
LaunchOk ==
    /\ pc = "start"
    /\ launch' = "ok"
    /\ browser' = "open"
    /\ IF badEntry = 0
       THEN /\ task' = [i \in 1..N |-> [NoTask EXCEPT !.pc = "ready"]]
            /\ pc' = "gather"
            /\ UNCHANGED raisedExc
       ELSE /\ raisedExc' = E_Unpack
            /\ pc' = "closing"
            /\ UNCHANGED task
    /\ created' = [created EXCEPT !.browsers = @ + 1]
    /\ UNCHANGED <<requests, badEntry, browserCloses, doneOrder, results, lateOps>>
    /\ UNCHANGED Aside

AnySettled == \E i \in 1..N : task[i].pc = "done"

\* gather returns once every child has completed.
AllSettled == \A i \in 1..N : task[i].pc = "done"

gatherCompletionOrder(outs, order) ==
    [raised |-> None, list |-> [k \in 1..Len(outs) |-> outs[order[k]]]]

gatherPropagating(outs, order) ==
    IF \E k \in 1..Len(outs) : outs[k].kind = "exc"
    THEN [raised |-> outs[Leftmost({k \in 1..Len(outs) : outs[k].kind = "exc"})].exc,
          list |-> <<>>]
    ELSE [raised |-> None, list |-> outs]

\* asyncio.gather(*tasks, return_exceptions=True): outs[k] is how child k
\* ended and order the order of completion.  The list is in the order of
\* the awaitables and an exception is an element of it; nothing is raised.
gather(outs, order) == [raised |-> None, list |-> outs]

\* The dict of lines 1065-1071.
ExceptionResult(exc, store) ==
    [price |-> NoPrice, currency |-> "$", status |-> "error",
     message |-> Msg("Exception during scraping: ", exc), store |-> store]

\* The loop of lines 1063-1073 on element i of the gathered list.
Processed(out, store) ==
    IF out.kind = "exc" THEN ExceptionResult(out.exc, store) ELSE out.res

\* await gather(...) completes; the results are processed and the return
\* value is set; control passes to the finally block.
GatherDone ==
    /\ pc = "gather"
    /\ AllSettled
    /\ LET g == gather([i \in 1..N |-> task[i].out], doneOrder)
       IN  IF g.raised = None
           THEN /\ results' = [i \in 1..Len(g.list) |->
                                   Processed(g.list[i], requests[i].store)]
                /\ UNCHANGED raisedExc
           ELSE /\ raisedExc' = g.raised
                /\ UNCHANGED results
    /\ pc' = "closing"
    /\ UNCHANGED <<requests, badEntry, browser, launch, browserCloses, task,
                   doneOrder, lateOps>>
    /\ UNCHANGED <<created, Aside>>

\* finally: browser.close() is called and awaited.
CloseBrowser ==
    /\ pc = "closing"
    /\ browser' = "closed"
    /\ browserCloses' = browserCloses + 1
    /\ pc' = "exiting"
    /\ UNCHANGED <<requests, badEntry, launch, task, doneOrder, results,
                   raisedExc, lateOps>>
    /\ UNCHANGED <<created, Aside>>

\* browser.close() has returned: the function returns its list, or the
\* pending exception goes on to the caller.
Exit ==
    /\ pc = "exiting"
    /\ pc' = IF raisedExc = None THEN "returned" ELSE "raised"
    /\ UNCHANGED <<requests, badEntry, browser, launch, browserCloses, task,
                   doneOrder, results, raisedExc, lateOps>>
    /\ UNCHANGED <<created, Aside>>

(***************************************************************************)
(* The coroutines: get_live_price and the adapter it calls.  A step runs   *)
(* from one await to the next; the event loop runs the coroutines while    *)
(* scrape_prices_concurrently is itself suspended at an await.             *)
(***************************************************************************)
LoopRunning == pc \in {"gather", "closing", "exiting"}

At(i, where) == LoopRunning /\ task[i].pc = where

Adapter(t) == t.adapters[1]

OrchVars == <<requests, badEntry, pc, browser, launch, browserCloses, results,
              raisedExc, modal, clean, sync>>

\* The coroutine of request i ends as t.out says.
Finish(i, t) ==
    /\ task' = [task EXCEPT ![i] = [t EXCEPT !.pc = "done", !.result = NoResult]]
    /\ doneOrder' = Append(doneOrder, i)

FinallyContextFirst(t) ==
    IF t.ctx = "open" THEN "close_context"
    ELSE IF t.page = "open" THEN "close_page"
    ELSE "done"

\* The finally block of an adapter: `if page: await page.close()`, then
\* `if 'context' in locals(): await context.close()`, then `return result`.
\* The await that comes next for a task in state t.
Finally(t) ==
    IF t.page = "open" THEN "close_page"
    ELSE IF t.ctx = "open" THEN "close_context"
    ELSE "done"

\* The task of request i goes on into (or within) the finally block.
ToFinally(i, t) ==
    IF Finally(t) = "done"
    THEN Finish(i, [t EXCEPT !.out = Returned(t.result)])
    ELSE /\ task' = [task EXCEPT ![i] = [t EXCEPT !.pc = Finally(t)]]
         /\ UNCHANGED doneOrder

\* An except clause that leaves the result as it is.
CaughtSilently(t, pre, exc) == t

\* `except Exception as e: result['message'] = f'Error: {str(e)}'`
Caught(t, pre, exc) == [t EXCEPT !.result = WithMessage(t.result, pre, exc)]

\* An operation on the browser, or on the context and page of task t.
OnBrowser == lateOps' = (lateOps \/ browser # "open")

OnPage(t) == lateOps' = (lateOps \/ browser # "open" \/ t.ctx # "open")

\* get_live_price waiting for the siblings in flight to complete before it
\* begins.
StartBounded(i) ==
    /\ At(i, "ready")
    /\ \A j \in 1..N : j # i => task[j].pc \in {"ready", "done"}
    /\ LET d == Dispatch(requests[i].store)
       IN  IF d = <<>>
           THEN Finish(i, [task[i] EXCEPT
                              !.out = Returned(UnsupportedResult(requests[i].store))])
           ELSE /\ task' = [task EXCEPT ![i] =
                              [@ EXCEPT !.pc = "new_context", !.adapters = d,
                                        !.result = InitialResult(AdapterStore(d[1]))]]
                /\ UNCHANGED doneOrder
    /\ UNCHANGED <<OrchVars, lateOps, created>>

\* get_live_price up to its first await.
Start(i) ==
    /\ At(i, "ready")
    /\ LET d == Dispatch(requests[i].store)
       IN  IF d = <<>>
           THEN Finish(i, [task[i] EXCEPT
                              !.out = Returned(UnsupportedResult(requests[i].store))])
           ELSE /\ task' = [task EXCEPT ![i] =
                              [@ EXCEPT !.pc = "new_context", !.adapters = d,
                                        !.result = InitialResult(AdapterStore(d[1]))]]
                /\ UNCHANGED doneOrder
    /\ UNCHANGED <<OrchVars, lateOps, created>>

\* browser.new_context() is skipped when a sibling has an open context,
\* which the task then uses.
NewContextShared(i) ==
    /\ At(i, "new_context")
    /\ OnBrowser
    /\ task' = [task EXCEPT ![i] = [@ EXCEPT !.ctx = "open", !.pc = "new_page"]]
    /\ created' = IF \E j \in 1..N : j # i /\ task[j].ctx = "open"
                  THEN created
                  ELSE [created EXCEPT !.contexts = @ + 1]
    /\ UNCHANGED <<OrchVars, doneOrder>>

\* context = await browser.new_context(...): a context of the task's own.
NewContextOk(i) ==
    /\ At(i, "new_context")
    /\ OnBrowser
    /\ task' = [task EXCEPT ![i] = [@ EXCEPT !.ctx = "open", !.pc = "new_page"]]
    /\ created' = [created EXCEPT !.contexts = @ + 1]
    /\ UNCHANGED <<OrchVars, doneOrder>>

NewContextFails(i) ==
    /\ At(i, "new_context")
    /\ OnBrowser
    /\ ToFinally(i, Caught(task[i], "Error: ", E_Ctx))
    /\ UNCHANGED <<OrchVars, created>>

\* page = await context.new_page(): a page of the task's own.
NewPageOk(i) ==
    /\ At(i, "new_page")
    /\ OnPage(task[i])
    /\ task' = [task EXCEPT ![i] =
                  [@ EXCEPT !.page = "open",
                            !.pc = IF Adapter(task[i]) = "coles" THEN "home" ELSE "goto"]]
    /\ created' = [created EXCEPT !.pages = @ + 1]
    /\ UNCHANGED <<OrchVars, doneOrder>>

NewPageFails(i) ==
    /\ At(i, "new_page")
    /\ OnPage(task[i])
    /\ ToFinally(i, Caught(task[i], "Error: ", E_Page))
    /\ UNCHANGED <<OrchVars, created>>

\* Coles only: page.goto(homepage) and the wait after it return.
HomeOk(i) ==
    /\ At(i, "home")
    /\ OnPage(task[i])
    /\ task' = [task EXCEPT ![i] =
                  [@ EXCEPT !.navs = @ + 1, !.home = "ok", !.pc = "goto"]]
    /\ UNCHANGED <<OrchVars, doneOrder, created>>

\* The visit of the homepage ends the adapter as any other failure does.
HomeFailsFatal(i) ==
    /\ At(i, "home")
    /\ OnPage(task[i])
    /\ LET t == [task[i] EXCEPT !.navs = @ + 1, !.home = "failed"]
       IN  ToFinally(i, Caught(t, "Error: ", E_Goto))
    /\ UNCHANGED <<OrchVars, created>>

\* Coles only: page.goto(homepage) or the wait after it raises; the
\* exception is logged ('continuing anyway') and the adapter goes on to
\* the product page.
HomeFails(i) ==
    /\ At(i, "home")
    /\ OnPage(task[i])
    /\ task' = [task EXCEPT ![i] =
                  [@ EXCEPT !.navs = @ + 1, !.home = "failed", !.pc = "goto"]]
    /\ UNCHANGED <<OrchVars, doneOrder, created>>

\* page.goto(product_url) returns (and, IGA and Woolworths, asyncio.sleep).
GotoOk(i) ==
    /\ At(i, "goto")
    /\ OnPage(task[i])
    /\ task' = [task EXCEPT ![i] =
                  [@ EXCEPT !.navs = @ + 1, !.attempts = @ + 1, !.nav = "ok",
                            !.pc = IF Adapter(task[i]) = "coles" THEN "settle" ELSE "extract"]]
    /\ UNCHANGED <<OrchVars, doneOrder, created>>

\* page.goto(product_url) raises and another attempt follows, up to three.
GotoFailsRetry(i) ==
    /\ At(i, "goto")
    /\ OnPage(task[i])
    /\ LET t == [task[i] EXCEPT !.navs = @ + 1, !.attempts = @ + 1]
       IN  IF t.attempts < 3
           THEN /\ task' = [task EXCEPT ![i] = t]
                /\ UNCHANGED doneOrder
           ELSE ToFinally(i, Caught([t EXCEPT !.nav = "failed"], "Error: ", E_Goto))
    /\ UNCHANGED <<OrchVars, created>>

\* page.goto(product_url) raises; IGA wraps the exception.  The exception
\* goes to the except clause of the adapter: there is no other attempt.
GotoFails(i) ==
    /\ At(i, "goto")
    /\ OnPage(task[i])
    /\ LET t == [task[i] EXCEPT !.navs = @ + 1, !.attempts = @ + 1,
                                !.nav = "failed"]
       IN  ToFinally(i, Caught(t, IF Adapter(t) = "iga"
                                  THEN "Error: Navigation failed: "
                                  ELSE "Error: ", E_Goto))
    /\ UNCHANGED <<OrchVars, created>>

\* Coles only: page.wait_for_timeout(5000) before the strategies.
SettleOk(i) ==
    /\ At(i, "settle")
    /\ OnPage(task[i])
    /\ task' = [task EXCEPT ![i] = [@ EXCEPT !.pc = "extract"]]
    /\ UNCHANGED <<OrchVars, doneOrder, created>>

SettleFails(i) ==
    /\ At(i, "settle")
    /\ OnPage(task[i])
    /\ ToFinally(i, Caught(task[i], "Error: ", E_Wait))
    /\ UNCHANGED <<OrchVars, created>>

\* The strategies and the parse, on the page at the URL of the request.
Extract(i) ==
    /\ At(i, "extract")
    /\ OnPage(task[i])
    /\ ToFinally(i, [task[i] EXCEPT
                        !.extracted = TRUE,
                        !.result = AdapterResult(Adapter(task[i]), requests[i].url)])
    /\ UNCHANGED <<OrchVars, created>>

ClosePageOk(i) ==
    /\ At(i, "close_page")
    /\ OnPage(task[i])
    /\ ToFinally(i, [task[i] EXCEPT !.page = "closed"])
    /\ UNCHANGED <<OrchVars, created>>

\* page.close() raises and the siblings that have not completed are
\* cancelled.
ClosePageFailsCancelling(i) ==
    /\ At(i, "close_page")
    /\ OnPage(task[i])
    /\ task' = [j \in 1..N |->
                  IF j = i
                  THEN [task[i] EXCEPT !.page = "close_failed", !.pc = "done",
                                       !.result = NoResult,
                                       !.out = Raise(E_ClosePage)]
                  ELSE IF task[j].pc = "done" THEN task[j]
                  ELSE [task[j] EXCEPT !.pc = "done", !.result = NoResult,
                                       !.out = Raise(<<>>)]]
    /\ doneOrder' = Append(doneOrder, i)
    /\ UNCHANGED <<OrchVars, created>>

\* page.close() raises: the exception leaves the finally block and the
\* adapter.
ClosePageFails(i) ==
    /\ At(i, "close_page")
    /\ OnPage(task[i])
    /\ Finish(i, [task[i] EXCEPT !.page = "close_failed", !.out = Raise(E_ClosePage)])
    /\ UNCHANGED <<OrchVars, created>>

\* The adapter closes the browser along with its context.
CloseContextAndBrowser(i) ==
    /\ At(i, "close_context")
    /\ OnBrowser
    /\ ToFinally(i, [task[i] EXCEPT !.ctx = "closed"])
    /\ browser' = "closed"
    /\ UNCHANGED <<requests, badEntry, pc, launch, browserCloses, results,
                   raisedExc, modal, clean, sync, created>>

\* await context.close() returns.
CloseContextOk(i) ==
    /\ At(i, "close_context")
    /\ OnBrowser
    /\ ToFinally(i, [task[i] EXCEPT !.ctx = "closed"])
    /\ UNCHANGED <<OrchVars, created>>

CloseContextFails(i) ==
    /\ At(i, "close_context")
    /\ OnBrowser
    /\ Finish(i, [task[i] EXCEPT !.ctx = "close_failed", !.out = Raise(E_CloseCtx)])
    /\ UNCHANGED <<OrchVars, created>>

Next ==
    \/ LaunchFailed
    \/ LaunchOk
    \/ GatherDone
    \/ CloseBrowser
    \/ Exit
    \/ \E i \in 1..N : Start(i)
    \/ \E i \in 1..N : NewContextOk(i)
    \/ \E i \in 1..N : NewContextFails(i)
    \/ \E i \in 1..N : NewPageOk(i)
    \/ \E i \in 1..N : NewPageFails(i)
    \/ \E i \in 1..N : HomeOk(i)
    \/ \E i \in 1..N : HomeFails(i)
    \/ \E i \in 1..N : GotoOk(i)
    \/ \E i \in 1..N : GotoFails(i)
    \/ \E i \in 1..N : SettleOk(i)
    \/ \E i \in 1..N : SettleFails(i)
    \/ \E i \in 1..N : Extract(i)
    \/ \E i \in 1..N : ClosePageOk(i)
    \/ \E i \in 1..N : ClosePageFails(i)
    \/ \E i \in 1..N : CloseContextOk(i)
    \/ \E i \in 1..N : CloseContextFails(i)

Spec == Init /\ [][Next]_vars

(***************************************************************************)
(* get_live_price_sync: a batch of one request run to its end on an event  *)
(* loop of its own.                                                        *)
(***************************************************************************)
\* The dict of lines 1119-1125.
NoResultReturned(store) ==
    [price |-> NoPrice, currency |-> "$", status |-> "error",
     message |-> Msg("No result returned", <<>>), store |-> store]

\* The dict of lines 1127-1133.
AsyncScraperError(exc, store) ==
    [price |-> NoPrice, currency |-> "$", status |-> "error",
     message |-> Msg("Error running async scraper: ", exc), store |-> store]

\* run_until_complete raises what scrape_prices_concurrently raised and the
\* exception leaves get_live_price_sync.
SyncReturnPropagating ==
    /\ sync.pc = "called"
    /\ pc \in {"returned", "raised"}
    /\ sync' = IF pc = "returned"
               THEN [pc |-> "done",
                     result |-> IF results # <<>> THEN results[1]
                                ELSE NoResultReturned(requests[1].store)]
               ELSE [pc |-> "raised", result |-> NoResult]
    /\ UNCHANGED <<requests, badEntry, pc, browser, launch, browserCloses, task,
                   doneOrder, results, raisedExc, lateOps, created, modal, clean>>

\* run_until_complete returns the list, of which result[0] is returned, or
\* raises what scrape_prices_concurrently raised, which the except clause
\* turns into a result.
SyncReturn ==
    /\ sync.pc = "called"
    /\ pc \in {"returned", "raised"}
    /\ sync' = [pc |-> "done",
                result |-> IF pc = "raised"
                           THEN AsyncScraperError(raisedExc, requests[1].store)
                           ELSE IF results # <<>> THEN results[1]
                           ELSE NoResultReturned(requests[1].store)]
    /\ UNCHANGED <<requests, badEntry, pc, browser, launch, browserCloses, task,
                   doneOrder, results, raisedExc, lateOps, created, modal, clean>>

NextSync ==
    \/ Next
    \/ SyncReturn

SpecSync == InitSync /\ [][NextSync]_vars

(***************************************************************************)
(* clean_price_text called on its own: on None, on every text of at most   *)
(* MaxTextLen characters of CleanAlphabet, and on the texts below.         *)
(***************************************************************************)
CleanAlphabet == {"$", "0", "1", "9", ".", " "}

T_Aud == <<"A", "U", "D", " ", "1", "2", ".", "3", "4">>

T_AudBig == <<"A", "U", "D", "1", "5", "0", "0", " ", "A", "U", "D", " ", "7">>

T_Suffixed == <<"1", "2", ".", "3", "4", " ", "$">>

T_BigThen3 == <<"$", "1", "5", "0", "0", ".", "0", "0", " ", "3">>

T_Tabbed == <<"\t", "$", "4", ".", "5", "0", "\n">>

T_Zero == <<"$", "0", ".", "0", "0">>

T_Aud5 == <<"A", "U", "D", " ", "5">>

T_Free == <<"f", "r", "e", "e">>

T_45 == <<"$", "4", ".", "5">>

T_125Suffixed == <<"1", "2", ".", "5", " ", "$">>

T_ZeroThen1 == <<"0", "0", "0", "0", " ", "1", ".", "5">>

NamedTexts ==
    {T_Price, T_Big, T_Long, T_Save, T_999, T_250, T_Unit, T_Was5, T_Was3,
     T_Each, T_SoldOut, N_1234, N_1500, N_025, N_35, T_Aud, T_AudBig,
     T_Suffixed, T_BigThen3, T_Tabbed, T_Zero, T_Aud5, T_Free, T_45,
     T_125Suffixed, T_ZeroThen1}

CleanInputs ==
    {None} \cup NamedTexts \cup UNION {[1..n -> CleanAlphabet] : n \in 0..MaxTextLen}

InitClean ==
    /\ requests = <<>>
    /\ badEntry = 0
    /\ InitRest
    /\ modal = NoModal
    /\ sync = NoSync
    /\ clean \in {[pc |-> "called", price_text |-> t, value |-> NoPrice] :
                     t \in CleanInputs}

\* The call returns.
CleanReturns ==
    /\ clean.pc = "called"
    /\ clean' = [clean EXCEPT !.pc = "done",
                              !.value = clean_price_text(clean.price_text)]
    /\ UNCHANGED <<requests, badEntry, pc, browser, launch, browserCloses, task,
                   doneOrder, results, raisedExc, lateOps, created, modal, sync>>

NextClean == CleanReturns

SpecClean == InitClean /\ [][NextClean]_vars

(***************************************************************************)
(* handle_iga_modal and handle_woolworths_modal called on a page.  Every   *)
(* call on the page may raise; a step runs one iteration of a selector     *)
(* loop, or one of the other sub-strategies.                               *)
(***************************************************************************)
\* The lengths of guest_selectors, of the two close_selectors and of
\* privacy_selectors.
NumGuest == 8

NumIgaClose == 9

NumWoolClose == 10

NumPrivacy == 5

ListLen(handler, stage) ==
    CASE stage = "guest" -> NumGuest
      [] stage = "close" -> IF handler = "iga" THEN NumIgaClose ELSE NumWoolClose
      [] stage = "cookie" -> NumPrivacy

FirstStage(handler) == IF handler = "iga" THEN "guest" ELSE "close"

NextStageNoSkip(handler, stage, handled) ==
    IF handler = "iga"
    THEN CASE stage = "guest" -> "close"
           [] stage = "close" -> "escape"
           [] stage = "escape" -> "outside"
           [] stage = "outside" -> "returned"
    ELSE CASE stage = "close" -> "escape"
           [] stage = "escape" -> "cookie"
           [] stage = "cookie" -> "returned"

\* What follows a sub-strategy: the `if not modal_handled` of lines 829,
\* 855, 864 and 909; the loop over privacy_selectors has no condition.
NextStage(handler, stage, handled) ==
    IF handler = "iga"
    THEN CASE stage = "guest" -> IF handled THEN "returned" ELSE "close"
           [] stage = "close" -> IF handled THEN "returned" ELSE "escape"
           [] stage = "escape" -> IF handled THEN "returned" ELSE "outside"
           [] stage = "outside" -> "returned"
    ELSE CASE stage = "close" -> IF handled THEN "cookie" ELSE "escape"
           [] stage = "escape" -> "cookie"
           [] stage = "cookie" -> "returned"

\* The call m enters a sub-strategy, or returns.
Enter(m, stage) ==
    IF stage = "returned" THEN [m EXCEPT !.pc = "returned", !.k = 0]
    ELSE [m EXCEPT !.pc = stage,
                   !.k = IF stage \in {"guest", "close", "cookie"} THEN 1 ELSE 0,
                   !.steps = Append(@, stage)]

\* The call m leaves its sub-strategy (the loop ends or breaks).
Leave(m) == Enter(m, NextStage(m.handler, m.pc, m.handled))

\* The list is tried again from its first selector while nothing was clicked.
NextSelectorAgain(m) ==
    IF m.k < ListLen(m.handler, m.pc) THEN [m EXCEPT !.k = @ + 1]
    ELSE IF m.found THEN Leave(m) ELSE [m EXCEPT !.k = 1]

\* `continue`, or the end of the loop body.
NextSelector(m) ==
    IF m.k < ListLen(m.handler, m.pc) THEN [m EXCEPT !.k = @ + 1] ELSE Leave(m)

InList == modal.pc \in {"guest", "close", "cookie"}

\* element.click() returned: modal_handled = True, except in the loop over
\* privacy_selectors.
Clicked(m) ==
    [m EXCEPT !.found = TRUE, !.clicks = @ + 1,
              !.handled = @ \/ m.pc # "cookie"]

ModalAside ==
    <<requests, badEntry, pc, browser, launch, browserCloses, task, doneOrder,
      results, raisedExc, lateOps, created, clean, sync>>

InitModal ==
    /\ requests = <<>>
    /\ badEntry = 0
    /\ InitRest
    /\ clean = NoClean
    /\ sync = NoSync
    /\ modal \in {[NoModal EXCEPT !.handler = h, !.pc = "wait"] :
                     h \in {"iga", "woolworths"}}

\* page.wait_for_timeout(3000) returns.
ModalWaitOk ==
    /\ modal.pc = "wait"
    /\ modal' = Enter([modal EXCEPT !.waited = TRUE], FirstStage(modal.handler))
    /\ UNCHANGED ModalAside

ModalWaitFailsRaised ==
    /\ modal.pc = "wait"
    /\ modal' = [modal EXCEPT !.pc = "raised"]
    /\ UNCHANGED ModalAside

\* page.wait_for_timeout(3000) raises: the outer except clause logs it and
\* the handler returns.
ModalWaitFails ==
    /\ modal.pc = "wait"
    /\ modal' = [modal EXCEPT !.pc = "returned", !.swallowed = TRUE]
    /\ UNCHANGED ModalAside

\* wait_for_selector (or is_visible) raises: `except Exception: continue`.
SelectorTimesOut ==
    /\ InList
    /\ modal' = NextSelector([modal EXCEPT !.swallowed = TRUE])
    /\ UNCHANGED ModalAside

\* wait_for_selector returns None or an element that is not visible.
SelectorNotVisible ==
    /\ InList
    /\ modal' = NextSelector(modal)
    /\ UNCHANGED ModalAside

\* The element is visible and element.click() raises.
SelectorClickFails ==
    /\ InList
    /\ modal' = NextSelector([modal EXCEPT !.found = TRUE, !.clicks = @ + 1,
                                           !.swallowed = TRUE])
    /\ UNCHANGED ModalAside

\* The click returns and the wait after it raises: the loop continues.
SelectorClickedWaitFails ==
    /\ InList
    /\ modal' = NextSelector([Clicked(modal) EXCEPT !.swallowed = TRUE])
    /\ UNCHANGED ModalAside

\* The click and the wait after it return: `break`.
SelectorClicked ==
    /\ InList
    /\ modal' = Leave(Clicked(modal))
    /\ UNCHANGED ModalAside

\* page.keyboard.press('Escape') returns; the wait after it may raise.
EscapePressed ==
    /\ modal.pc = "escape"
    /\ \E ok \in BOOLEAN :
           modal' = Leave([modal EXCEPT !.keys = @ + 1,
                                        !.swallowed = @ \/ ~ok])
    /\ UNCHANGED ModalAside

\* page.keyboard.press('Escape') raises: `except Exception: pass`.
EscapeFails ==
    /\ modal.pc = "escape"
    /\ modal' = Leave([modal EXCEPT !.keys = @ + 1, !.swallowed = TRUE])
    /\ UNCHANGED ModalAside

\* page.click('body', position=...) returns; the wait after it may raise.
OutsideClicked ==
    /\ modal.pc = "outside"
    /\ \E ok \in BOOLEAN :
           modal' = Leave([modal EXCEPT !.bodyClicks = @ + 1,
                                        !.swallowed = @ \/ ~ok])
    /\ UNCHANGED ModalAside

\* page.click('body', position=...) raises: `except Exception: pass`.
OutsideFails ==
    /\ modal.pc = "outside"
    /\ modal' = Leave([modal EXCEPT !.bodyClicks = @ + 1, !.swallowed = TRUE])
    /\ UNCHANGED ModalAside

NextModal ==
    \/ ModalWaitOk
    \/ ModalWaitFails
    \/ SelectorTimesOut
    \/ SelectorNotVisible
    \/ SelectorClickFails
    \/ SelectorClickedWaitFails
    \/ SelectorClicked
    \/ EscapePressed
    \/ EscapeFails
    \/ OutsideClicked
    \/ OutsideFails

SpecModal == InitModal /\ [][NextModal]_vars

(***************************************************************************)
(* Termination.  A behaviour is a call of scrape_prices_concurrently or a  *)
(* call of a modal handler.  Every await of the code is on one browser     *)
(* operation (or a sleep); provided each of them returns or raises, the    *)
(* event loop resumes the coroutine that awaits it: a step that is         *)
(* possible is eventually taken.                                           *)
(***************************************************************************)
InitLive == Init \/ InitModal

NextLive ==
    \/ Next
    \/ NextModal

SpecLive ==
    /\ InitLive
    /\ [][NextLive]_vars
    /\ WF_vars(Next)
    /\ WF_vars(NextModal)

(***************************************************************************)
(* Properties.                                                             *)
(***************************************************************************)

\* C1: when the browser has launched and every entry of the list is a
\* (url, store) pair, scrape_prices_concurrently returns (it does not raise),
\* the returned list has exactly N elements, and element i is what the
\* coroutine of request i produced (its returned dict, or the dict made from
\* its exception), whatever the order of completion.
C1_OrderedResults ==
    /\ (pc \in {"returned", "raised"} /\ launch = "ok" /\ badEntry = 0)
           => pc = "returned"
    /\ pc = "returned" =>
           /\ Len(results) = N
           /\ \A i \in 1..N :
                  /\ task[i].out.kind = "ret" => results[i] = task[i].out.res
                  /\ task[i].out.kind = "exc" =>
                         /\ results[i].message.arg = task[i].out.exc
                         /\ results[i].store = requests[i].store

\* Two requests, completed in the reverse of the input order, one raising and
\* one returning a price.
C1_Witness ==
    /\ pc = "returned"
    /\ N = 2
    /\ doneOrder = <<2, 1>>
    /\ task[1].out.kind = "exc"
    /\ task[2].out.kind = "ret"
    /\ task[2].out.res.status = "success"
    /\ results[2].status = "success"

\* C2: an exception that leaves an adapter call is not raised to the caller
\* of scrape_prices_concurrently; the list is returned and, at the position
\* of that request, holds a dict with status 'error', no price and the
\* message 'Exception during scraping: ' followed by str(exception).
C2_ExceptionBecomesResult ==
    \A i \in 1..N :
        task[i].out.kind = "exc" =>
            /\ raisedExc = None
            /\ pc # "raised"
            /\ pc = "returned" =>
                   /\ Len(results) = N
                   /\ results[i].status = "error"
                   /\ results[i].price = NoPrice
                   /\ results[i].message =
                          Msg("Exception during scraping: ", task[i].out.exc)

\* The first of two adapter calls raised out of its finally block, the
\* sibling completed normally, and the list has been returned.
C2_Witness ==
    /\ pc = "returned"
    /\ N = 2
    /\ task[1].out = Raise(E_ClosePage)
    /\ task[2].out.kind = "ret"
    /\ task[2].ctx = "closed"
    /\ results[1].status = "error"

\* C3: in every dict of the returned list, price is not None exactly when
\* status is 'success'.
C3_PriceIffSuccess ==
    pc = "returned" =>
        \A i \in 1..Len(results) :
            (results[i].price # NoPrice) <=> (results[i].status = "success")

\* The Coles adapter returned the price it formatted from the page source.
C3_Witness ==
    /\ pc = "returned"
    /\ N = 1
    /\ requests[1] = Request("json", Txt_Coles)
    /\ results[1].status = "success"
    /\ results[1].price # NoPrice

\* C4 (refuted by the IGA adapter): every price in a returned dict lies in
\* [0.01, 999.99].
C4_PriceInRange ==
    pc = "returned" =>
        \A i \in 1..Len(results) :
            results[i].price # NoPrice => InRange(results[i].price[1])

\* C5: browser.close() is called at most once; when the function has left
\* after a successful launch, by return or by exception, it has been called
\* exactly once; and when the browser is closed, every coroutine of the
\* batch has completed (or none was ever scheduled).
C5_BrowserClosedOnce ==
    /\ browserCloses <= 1
    /\ launch # "ok" => browserCloses = 0
    /\ (pc \in {"returned", "raised"} /\ launch = "ok") =>
           (browserCloses = 1 /\ browser = "closed")
    /\ browser = "closed" =>
           \/ \A i \in 1..N : task[i].pc = "done"
           \/ \A i \in 1..N : task[i] = NoTask

\* The browser has been closed after two coroutines, one of which raised and
\* the other of which was the last to complete.
C5_Witness ==
    /\ browser = "closed"
    /\ browserCloses = 1
    /\ N = 2
    /\ doneOrder = <<1, 2>>
    /\ task[1].out.kind = "exc"
    /\ task[2].navs > 0

\* C6 (refuted when page.close() raises): a completed adapter call that
\* created a context has called context.close() on it.
C6_ContextClosed ==
    \A i \in 1..N :
        (task[i].pc = "done" /\ task[i].ctx # "none")
            => task[i].ctx \in {"closed", "close_failed"}

\* C7: no operation is issued on the browser after browser.close(), and no
\* operation on a page (goto, waits, queries, content, close) after the
\* close of its context or of the browser.
C7_NoLateOperation == ~lateOps

\* Both requests navigated; the context of the second was closed while the
\* first still had its page to close; the browser is closed at the end.
C7_Witness ==
    /\ browser = "closed"
    /\ N = 2
    /\ doneOrder = <<2, 1>>
    /\ \A i \in 1..N : task[i].navs > 0 /\ task[i].ctx = "closed"
                       /\ task[i].page = "closed"

\* C8: for a request whose lower-cased store contains none of 'iga',
\* 'coles', 'woolworths', no context and no page is created and page.goto is
\* never called; its dict has status 'error', no price, the message
\* 'Unsupported store: ' followed by the lower-cased store, and store equal
\* to the lower-cased store.
C8_UnsupportedStore ==
    \A i \in 1..N :
        LET low == StrLower(requests[i].store)
        IN  (~ \E k \in {K_iga, K_coles, K_woolworths} : Contains(low, k)) =>
                /\ task[i].ctx = "none"
                /\ task[i].page = "none"
                /\ task[i].navs = 0
                /\ task[i].adapters = <<>>
                /\ pc = "returned" =>
                       /\ results[i].status = "error"
                       /\ results[i].price = NoPrice
                       /\ results[i].message.pre = "Unsupported store: "
                       /\ results[i].message.arg = low
                       /\ results[i].store = low

\* The batch (IGA, Mars): the second dict carries the store 'mars'.
C8_Witness ==
    /\ pc = "returned"
    /\ N = 2
    /\ requests[1].store = Txt_IGA
    /\ requests[2].store = S_Mars
    /\ task[1].navs = 1
    /\ results[2].store = <<"m", "a", "r", "s">>
    /\ results[2].store # requests[2].store

\* C9: a request that get_live_price has dispatched was handed to at most
\* one adapter; to none exactly when its lower-cased store contains none of
\* the three substrings; and the adapter it was handed to is one whose
\* substring the lower-cased store contains.
C9_SingleDispatch ==
    \A i \in 1..N :
        LET low == StrLower(requests[i].store)
            key == [a \in {"iga", "coles", "woolworths"} |->
                       CASE a = "iga" -> K_iga
                         [] a = "coles" -> K_coles
                         [] a = "woolworths" -> K_woolworths]
        IN  task[i].pc \notin {"none", "ready"} =>
                /\ Len(task[i].adapters) <= 1
                /\ (task[i].adapters = <<>>) <=>
                       (\A a \in DOMAIN key : ~Contains(low, key[a]))
                /\ \A k \in 1..Len(task[i].adapters) :
                       /\ task[i].adapters[k] \in DOMAIN key
                       /\ Contains(low, key[task[i].adapters[k]])

\* The store 'coles IGA' contains two of the substrings and was handed to
\* the IGA adapter alone.
C9_Witness ==
    /\ N = 1
    /\ requests[1].store = S_Both
    /\ task[1].pc = "done"
    /\ task[1].adapters = <<"iga">>
    /\ task[1].navs = 1

\* C10: when firefox.launch raises, the exception reaches the caller, no
\* list is returned, and no coroutine runs: no adapter is called, no context
\* or page is created and nothing is navigated.
C10_LaunchFailureFatal ==
    launch = "failed" =>
        /\ pc = "raised"
        /\ raisedExc = E_Launch
        /\ results = <<>>
        /\ browser = "none"
        /\ browserCloses = 0
        /\ doneOrder = <<>>
        /\ ~lateOps
        /\ \A i \in 1..N : task[i] = NoTask

\* The launch failed for a batch of two requests.
C10_Witness ==
    /\ launch = "failed"
    /\ pc = "raised"
    /\ N = 2
    /\ raisedExc = E_Launch

\* C11 (refuted when page.close() or context.close() raises): an adapter
\* call that has ended has returned a dict whose status is 'success' or
\* 'error'; it has not raised.
C11_AdapterNeverRaises ==
    \A i \in 1..N :
        (task[i].pc = "done" /\ task[i].adapters # <<>>) =>
            /\ task[i].out.kind = "ret"
            /\ task[i].out.res.status \in {"success", "error"}

\* C12 as stated (refuted): a navigation to the product URL is given up
\* only after three attempts, each failed attempt being followed by the
\* next one.
C12_ThreeAttemptLadder ==
    \A i \in 1..N : task[i].nav = "failed" => task[i].attempts = 3

\* C12 as amended: an adapter calls page.goto for the product URL at most
\* once; when that call raises there is no other attempt and no extraction,
\* the adapter goes to its finally block; the extraction runs only after a
\* call that returned.
C12_SingleAttempt ==
    \A i \in 1..N :
        /\ task[i].attempts <= 1
        /\ task[i].nav # "none" => task[i].attempts = 1
        /\ task[i].nav = "failed" =>
               /\ ~task[i].extracted
               /\ task[i].pc \in {"close_page", "close_context", "done"}
        /\ task[i].extracted => task[i].nav = "ok"

\* A Coles call has ended after its only attempt on the product URL failed
\* (the homepage visit being its other page.goto).
C12_Witness ==
    \E i \in 1..N :
        /\ task[i].pc = "done"
        /\ task[i].adapters = <<"coles">>
        /\ task[i].nav = "failed"
        /\ task[i].attempts = 1
        /\ task[i].navs = 2

\* C13 (refuted when page.close() or context.close() raises after the
\* failed navigation): an adapter call whose navigation to the product URL
\* failed has run no extraction and has returned a dict with status 'error'
\* and no price.
C13_NavigationFailure ==
    \A i \in 1..N :
        (task[i].pc = "done" /\ task[i].nav = "failed") =>
            /\ ~task[i].extracted
            /\ task[i].out.kind = "ret"
            /\ task[i].out.res.status = "error"
            /\ task[i].out.res.price = NoPrice

\* C14 (refuted: no adapter calls a modal handler): when an adapter whose
\* navigation succeeded is about to run, or has run, its extraction, a
\* modal handler has been called on its page.
C14_ModalBeforeExtraction ==
    \A i \in 1..N :
        (task[i].nav = "ok" /\ (task[i].pc = "extract" \/ task[i].extracted))
            => task[i].modalCalls >= 1

\* C18 (refuted): when an adapter has run its strategies on a page and at
\* least one strategy's candidate text normalizes to a price, the dict it
\* returns has status 'success' and the price of the earliest such
\* strategy.
C18_EarliestNormalizable ==
    \A i \in 1..N :
        (task[i].extracted /\ task[i].out.kind = "ret") =>
            LET a    == task[i].adapters[1]
                c    == StrategyTexts(a, PageAt(requests[i].url))
                good == {k \in 1..Len(c) :
                            ~Falsy(c[k]) /\ Normalized(a, c[k]) # NoPrice}
            IN  good # {} =>
                    /\ task[i].out.res.status = "success"
                    /\ task[i].out.res.price = Normalized(a, c[Leftmost(good)])

\* C19: what clean_price_text returns is None or a value v with
\* 0.01 <= v <= 999.99.
C19_CleanInRange ==
    clean.pc = "done" =>
        \/ clean.value = NoPrice
        \/ /\ Len(clean.value) = 1
           /\ Scale \div 100 <= clean.value[1]
           /\ clean.value[1] <= 99999 * (Scale \div 100)

\* Every pattern finds 1500 or 1500.00 first; the fallback passes over
\* 1500.00 and returns 3.
C19_Witness ==
    /\ clean.pc = "done"
    /\ clean.price_text = T_BigThen3
    /\ clean.value = <<3 * Scale>>

\* C20: when some pattern of the list ($ with cents, $ integer, suffixed $
\* with cents, suffixed $ integer, AUD with cents, AUD integer, bare
\* decimal, bare integer) matches the cleaned text with a value in
\* [0.01, 999.99], clean_price_text returns the value of the first such
\* pattern of the list; a pattern whose match is out of range is passed
\* over.
C20_FirstInRangePattern ==
    (clean.pc = "done" /\ clean.price_text # None /\ clean.price_text # <<>>) =>
        LET t    == ReplaceNlTab(Strip(clean.price_text))
            v(k) == FloatOf(PricePattern(k, t))
            hits == {k \in 1..8 : /\ PricePattern(k, t) # NoMatch
                                  /\ Scale \div 100 <= v(k)
                                  /\ v(k) <= 99999 * (Scale \div 100)}
        IN  hits # {} =>
                clean.value = <<v(CHOOSE k \in hits : \A j \in hits : k <= j)>>

\* On "1$0" the second pattern matches 0, which is out of range, and the
\* fourth matches 1, which is returned.
C20_Witness ==
    /\ clean.pc = "done"
    /\ clean.price_text = <<"1", "$", "0">>
    /\ PricePattern(2, clean.price_text) = <<"0">>
    /\ PricePattern(4, clean.price_text) = <<"1">>
    /\ clean.value = <<Scale>>

\* C15: a call of handle_iga_modal or handle_woolworths_modal never ends by
\* raising, whichever of its calls on the page raise, and as long as it has
\* not returned it can go on.
C15_HandlerNeverRaises ==
    /\ modal.pc # "raised"
    /\ modal.pc \notin {"idle", "returned"} => ENABLED NextModal

\* handle_iga_modal returned after a click on a control raised, no control
\* was clicked with success, and Escape and the click outside were issued.
C15_Witness ==
    /\ modal.pc = "returned"
    /\ modal.handler = "iga"
    /\ modal.swallowed
    /\ modal.clicks >= 1
    /\ ~modal.handled
    /\ modal.keys = 1
    /\ modal.bodyClicks = 1

\* C16 as stated (refuted by handle_iga_modal, which has no cookie-accept
\* step): a call whose initial wait returned ends with the cookie-accept
\* step as its last sub-strategy.
C16_CookieAlwaysLast ==
    (modal.pc = "returned" /\ modal.waited) =>
        (modal.steps # <<>> /\ modal.steps[Len(modal.steps)] = "cookie")

\* C16 as amended: handle_iga_modal enters its sub-strategies in the order
\* guest, close, Escape, click outside and has no cookie-accept step;
\* handle_woolworths_modal in the order close, Escape, cookie accept.  Once
\* a guest or close control has been clicked with success no later
\* sub-strategy is entered, except the cookie-accept step of
\* handle_woolworths_modal, which is the last sub-strategy of every call
\* whose initial wait returned.  A call in which no control was clicked and
\* whose initial wait returned goes through every sub-strategy.
C16_SubStrategyOrder ==
    /\ [](LET order == IF modal.handler = "iga"
                       THEN <<"guest", "close", "escape", "outside">>
                       ELSE <<"close", "escape", "cookie">>
              pos(x) == CHOOSE k \in 1..Len(order) : order[k] = x
              st    == modal.steps
          IN  /\ \A j \in 1..Len(st) : \E k \in 1..Len(order) : order[k] = st[j]
              /\ \A j \in 1..(Len(st) - 1) : pos(st[j]) < pos(st[j + 1])
              /\ st # <<>> => st[1] = order[1]
              /\ (modal.pc = "returned" /\ modal.waited /\ ~modal.handled)
                     => st = order
              /\ (modal.pc = "returned" /\ modal.waited
                    /\ modal.handler = "woolworths")
                     => st[Len(st)] = "cookie")
    /\ [][modal'.handled =>
             \/ modal'.steps = modal.steps
             \/ /\ modal.handler = "woolworths"
                /\ modal'.steps = Append(modal.steps, "cookie")]_vars

\* handle_woolworths_modal clicked a close control, skipped Escape, and
\* clicked a cookie control.
C16_Witness ==
    /\ modal.pc = "returned"
    /\ modal.handler = "woolworths"
    /\ modal.handled
    /\ modal.steps = <<"close", "cookie">>
    /\ modal.clicks = 2
    /\ modal.keys = 0

\* C17 (refuted: Escape is pressed, and handle_iga_modal clicks the body):
\* a call that found no visible control has, when it returns, issued no
\* click and no key press to the page.
C17_NoActionWithoutModal ==
    (modal.pc = "returned" /\ ~modal.found) =>
        (modal.clicks = 0 /\ modal.keys = 0 /\ modal.bodyClicks = 0)

\* C21: when no pattern of the list matches the cleaned text with a value in
\* [0.01, 999.99], clean_price_text returns the first of the numeric
\* substrings of the text, in order of occurrence, whose value is in
\* [0.01, 999.99]; it returns nothing when there is none, and nothing for an
\* empty or absent text.
C21_FallbackFirstAdmissible ==
    clean.pc = "done" =>
        IF clean.price_text = None \/ clean.price_text = <<>>
        THEN clean.value = NoPrice
        ELSE LET t      == ReplaceNlTab(Strip(clean.price_text))
                 v(k)   == FloatOf(PricePattern(k, t))
                 hits   == {k \in 1..8 : /\ PricePattern(k, t) # NoMatch
                                         /\ Scale \div 100 <= v(k)
                                         /\ v(k) <= 99999 * (Scale \div 100)}
                 nums   == FindAllNumbers(t, 1)
                 w(j)   == FloatOf(nums[j])
                 admiss == {j \in 1..Len(nums) : /\ Scale \div 100 <= w(j)
                                                 /\ w(j) <= 99999 * (Scale \div 100)}
             IN  hits = {} =>
                     IF admiss = {} THEN clean.value = NoPrice
                     ELSE clean.value =
                              <<w(CHOOSE j \in admiss : \A i \in admiss : j <= i)>>

\* On "AUD1500 AUD 7" the sixth and the eighth pattern match 1500, no
\* pattern matches 7, and the fallback passes over 1500 and returns 7.
C21_Witness ==
    /\ clean.pc = "done"
    /\ clean.price_text = T_AudBig
    /\ \A k \in 1..8 : PricePattern(k, T_AudBig) \in {NoMatch, <<"1", "5", "0", "0">>}
    /\ FindAllNumbers(T_AudBig, 1) = << <<"1", "5", "0", "0">>, <<"7">> >>
    /\ clean.value = <<7 * Scale>>

\* C22: clean_price_text("$12.34") = 12.34, clean_price_text("12.34 $") =
\* 12.34, clean_price_text("AUD 5") = 5.0 and clean_price_text("free") is
\* nothing; an amount in [0.01, 999.99] written after "$", after "AUD" or
\* before "$" is returned unchanged, and a text without any digit yields
\* nothing.
C22_CurrencyAmountUnchanged ==
    clean.pc = "done" =>
        LET t         == clean.price_text
            Amount(s) == /\ s # <<>>
                         /\ LooseEnd(s, 1) = Len(s) + 1
                         /\ IsDigit(s[Len(s)])
                         /\ Scale \div 100 <= FloatOf(s)
                         /\ FloatOf(s) <= 99999 * (Scale \div 100)
            Written   == {s \in {SubSeq(t, i, j) : i, j \in 1..Len(t)} :
                            /\ Amount(s)
                            /\ t \in {<<"$">> \o s, <<"A", "U", "D">> \o s,
                                       <<"A", "U", "D", " ">> \o s,
                                       s \o <<"$">>, s \o <<" ", "$">>}}
        IN  /\ t = T_Price => clean.value = <<1234 * (Scale \div 100)>>
            /\ t = T_Suffixed => clean.value = <<1234 * (Scale \div 100)>>
            /\ t = T_Aud5 => clean.value = <<5 * Scale>>
            /\ t = T_Free => clean.value = NoPrice
            /\ t # None => \A s \in Written : clean.value = <<FloatOf(s)>>
            /\ (t # None /\ \A k \in 1..Len(t) : ~IsDigit(t[k])) =>
                   clean.value = NoPrice

\* C23: for a text made of "$" and an amount in [0.01, 999.99] (digits,
\* optionally a decimal point and fractional digits), possibly surrounded by
\* whitespace, clean_price_text returns the number written; when the amount
\* is written with two decimals and no leading zero, formatting the value as
\* "$" and two decimals gives the text back.
C23_ValueAsWritten ==
    (clean.pc = "done" /\ clean.price_text # None) =>
        LET t == Strip(clean.price_text)
            s == Slice(t, 2, Len(t))
        IN  (/\ Len(t) >= 2
             /\ t[1] = "$"
             /\ LooseEnd(s, 1) = Len(s) + 1
             /\ IsDigit(s[Len(s)])
             /\ Scale \div 100 <= FloatOf(s)
             /\ FloatOf(s) <= 99999 * (Scale \div 100)) =>
                /\ clean.value = <<FloatOf(s)>>
                /\ (/\ DecimalEnd(s, 1) = Len(s) + 1
                    /\ (s[1] = "0" => s[2] = ".")) =>
                       FormatDollars(clean.value[1]) = t

\* C24: the number of adapter tasks in flight at once (tasks whose browsing
\* context is open) stays below a limit that does not grow with the batch:
\* a batch of two or more requests never has all of its contexts open at
\* the same time.
C24_BoundedInFlight ==
    N >= 2 => Cardinality({i \in 1..N : task[i].ctx = "open"}) < N

\* C24, amended: the tasks of a batch are all started together and none
\* waits for a sibling: while gather is awaited every task has been created
\* and a task that has not begun can begin, whatever the siblings are
\* doing; each request makes at most one context, so at most N contexts
\* are open at once, and N can be reached.
C24_AllInFlight ==
    /\ created.contexts <= N
    /\ pc = "gather" =>
          \A i \in 1..N :
              /\ task[i].pc # "none"
              /\ task[i].pc = "ready" => ENABLED Start(i)

\* Every task of a batch of two or more has its context open, and the
\* orchestrator is awaiting gather.
C24_Witness ==
    /\ pc = "gather"
    /\ N >= 2
    /\ Cardinality({i \in 1..N : task[i].ctx = "open"}) = N

\* C25: a failure in the task of one request never cancels or alters the
\* task of a sibling: a step of a task changes that task only, every task
\* has completed when the batch returns, and the result of a request is
\* what its own task ended with, the adapter's result for its page when
\* the task's own calls went through.
C25_SiblingIsolation ==
    /\ [](pc = "returned" =>
            \A j \in 1..N :
                /\ task[j].pc = "done"
                /\ results[j] = Processed(task[j].out, requests[j].store)
                /\ (task[j].extracted /\ task[j].out.kind = "ret") =>
                       results[j] = AdapterResult(Adapter(task[j]), requests[j].url))
    /\ [][\A i \in 1..N :
             (task[i].pc \notin {"none", "done"} /\ task'[i] # task[i]) =>
                 \A j \in 1..N : j # i => task'[j] = task[j]]_vars

\* One task ended by raising, another failed to navigate, and a sibling
\* returned a price.
C25_Witness ==
    /\ pc = "returned"
    /\ \E i, j \in 1..N :
          /\ i # j
          /\ \/ task[i].out.kind = "exc"
             \/ task[i].nav = "failed"
          /\ task[j].extracted
          /\ results[j].status = "success"
          /\ results[j] = AdapterResult(Adapter(task[j]), requests[j].url)

\* C26: every request dispatched to an adapter makes its own browsing
\* context and its own page: there are as many contexts (pages) made as
\* tasks that have one, and a task that navigates or extracts has both
\* open; no context or page serves two tasks.
C26_OwnContextAndPage ==
    /\ created.contexts = Cardinality({i \in 1..N : task[i].ctx # "none"})
    /\ created.pages = Cardinality({i \in 1..N : task[i].page # "none"})
    /\ \A i \in 1..N :
          /\ task[i].pc \in {"home", "goto", "settle", "extract"} =>
                 task[i].ctx = "open" /\ task[i].page = "open"
          /\ task[i].page # "none" => task[i].ctx # "none"
          /\ (task[i].navs > 0 \/ task[i].extracted) => task[i].page # "none"

\* Two tasks are in flight together, each with a context and a page.
C26_Witness ==
    /\ N = 2
    /\ \A i \in 1..N : task[i].ctx = "open" /\ task[i].page = "open"
    /\ created.contexts = 2
    /\ created.pages = 2

\* C27: a call of scrape_prices_concurrently launches one browser, whatever
\* the number of requests; every context is made from it; no step of an
\* adapter call launches, closes or otherwise changes the browser.
C27_OneSharedBrowser ==
    /\ [](/\ created.browsers <= 1
          /\ (launch = "ok") <=> (created.browsers = 1)
          /\ created.contexts > 0 => created.browsers = 1
          /\ pc = "returned" => created.browsers = 1)
    /\ [][\A i \in 1..N :
             (task[i].pc # "none" /\ task'[i] # task[i]) =>
                 /\ browser' = browser
                 /\ browserCloses' = browserCloses
                 /\ launch' = launch
                 /\ created'.browsers = created.browsers]_vars

\* A batch of two requests returned: one browser, two contexts.
C27_Witness ==
    /\ pc = "returned"
    /\ N = 2
    /\ created = [browsers |-> 1, contexts |-> 2, pages |-> 2]
    /\ browserCloses = 1

\* C28: when the strategies of an adapter end without a candidate text, the
\* result has status 'error' and its message includes the page title
\* whenever page.title() can return it.
C28_TitleInMessage ==
    pc = "returned" =>
        \A i \in 1..N :
            (/\ task[i].extracted
             /\ task[i].out.kind = "ret"
             /\ Falsy(PriceText(Adapter(task[i]), PageAt(requests[i].url)))) =>
                /\ results[i].status = "error"
                /\ PageAt(requests[i].url).title # Raised =>
                       results[i].message.arg = PageAt(requests[i].url).title

\* C28, amended: when the strategies of an adapter end without a candidate
\* text, the result has status 'error' and no price; the Coles message
\* includes the page title when the title is obtained and does not contain
\* "coles" in any letter case, and is a fixed text otherwise; the IGA and
\* the Woolworths message are fixed texts without the title.
C28_TitleOnlyOffSite ==
    pc = "returned" =>
        \A i \in 1..N :
            LET a     == Adapter(task[i])
                title == PageAt(requests[i].url).title
                onSite == Contains(StrLower(title), <<"c", "o", "l", "e", "s">>)
            IN  (/\ task[i].extracted
                 /\ task[i].out.kind = "ret"
                 /\ Falsy(PriceText(a, PageAt(requests[i].url)))) =>
                    /\ results[i].status = "error"
                    /\ results[i].price = NoPrice
                    /\ a = "iga" =>
                           results[i].message =
                               Msg("Price element not found on page", <<>>)
                    /\ a = "woolworths" =>
                           results[i].message = Msg("Price element not found", <<>>)
                    /\ a = "coles" =>
                           results[i].message =
                               IF title = Raised
                               THEN Msg("Price element not found and could not determine page status", <<>>)
                               ELSE IF onSite
                               THEN Msg("Price element not found on page after trying all strategies", <<>>)
                               ELSE Msg("Not on Coles page. Page title: ", title)

\* The Coles adapter found no candidate on a page titled "Denied".
C28_Witness ==
    /\ pc = "returned"
    /\ requests = <<Request("denied", Txt_Coles)>>
    /\ task[1].extracted
    /\ Falsy(ColesPriceText(PgDenied))
    /\ results[1].message = Msg("Not on Coles page. Page title: ", Title_Denied)

\* C29: in every adapter the price of a 'success' result is
\* clean_price_text of the candidate text the strategies selected.
C29_PriceIsNormalizedCandidate ==
    pc = "returned" =>
        \A i \in 1..N :
            (/\ task[i].extracted
             /\ task[i].out.kind = "ret"
             /\ results[i].status = "success") =>
                results[i].price =
                    clean_price_text(PriceText(Adapter(task[i]), PageAt(requests[i].url)))

\* C30: when an adapter has a candidate text and its parse recovers no
\* number from it, the result has status 'error', no price and the message
\* 'Could not parse price from text: ' followed by the candidate; a
\* 'success' result comes only from a candidate that parsed.
C30_ParseFailureIsError ==
    pc = "returned" =>
        \A i \in 1..N :
            LET a    == Adapter(task[i])
                cand == PriceText(a, PageAt(requests[i].url))
            IN  (task[i].extracted /\ task[i].out.kind = "ret") =>
                    /\ (~Falsy(cand) /\ Normalized(a, cand) = NoPrice) =>
                           /\ results[i].status = "error"
                           /\ results[i].price = NoPrice
                           /\ results[i].message =
                                  Msg("Could not parse price from text: ", cand)
                    /\ results[i].status = "success" =>
                           /\ ~Falsy(cand)
                           /\ Normalized(a, cand) # NoPrice

\* The Woolworths adapter took "$1500.00" from the price-lead element and
\* clean_price_text returned nothing for it.
C30_Witness ==
    /\ pc = "returned"
    /\ requests = <<Request("big", Txt_Woolworths)>>
    /\ task[1].extracted
    /\ WoolPriceText(PgBig) = T_Big
    /\ clean_price_text(T_Big) = NoPrice
    /\ results[1].status = "error"
    /\ results[1].message = Msg("Could not parse price from text: ", T_Big)

\* C31: the Coles adapter tries the price-attribute selectors, then the scan
\* of generic text elements, then the regex scan of the page source, then
\* the legacy selectors, and its result comes from the first of them that
\* found a text; the text the scan of generic elements finds contains none
\* of 'save', 'off', 'was', 'rrp', 'usual' in any letter case.
C31_ColesStrategyOrder ==
    pc = "returned" =>
        \A i \in 1..N :
            (/\ task[i].extracted
             /\ task[i].out.kind = "ret"
             /\ Adapter(task[i]) = "coles") =>
                LET s     == ColesStrategyTexts(PageAt(requests[i].url))
                    found == {k \in 1..4 : s[k] # None /\ s[k] # <<>>}
                    first == CHOOSE k \in found : \A j \in found : k <= j
                    words == { <<"s", "a", "v", "e">>, <<"o", "f", "f">>,
                               <<"w", "a", "s">>, <<"r", "r", "p">>,
                               <<"u", "s", "u", "a", "l">> }
                IN  /\ found = {} =>
                           /\ results[i].status = "error"
                           /\ results[i].message.pre # "Could not parse price from text: "
                    /\ found # {} =>
                           \/ /\ results[i].status = "success"
                              /\ results[i].price = clean_price_text(s[first])
                           \/ /\ results[i].status = "error"
                              /\ results[i].message =
                                     Msg("Could not parse price from text: ", s[first])
                    /\ 2 \in found =>
                           \A w \in words : ~Contains(StrLower(s[2]), w)

\* On the promotional page the selectors raise, the scan of generic
\* elements passes over "Save $2.00" and finds "$9.99", which is the price,
\* although the page source and the legacy selectors were never tried.
C31_Witness ==
    /\ pc = "returned"
    /\ requests = <<Request("promo", Txt_Coles)>>
    /\ task[1].extracted
    /\ ColesStrategyTexts(PgPromo)[1] = None
    /\ ColesStrategyTexts(PgPromo)[2] = T_999
    /\ results[1].status = "success"
    /\ results[1].price = <<999 * (Scale \div 100)>>

\* C32: the IGA adapter takes as candidate only a text of fewer than 20
\* characters once trimmed: the text a 'success' result is parsed from, and
\* the text a parse failure reports, is that short.
C32_IgaShortCandidate ==
    pc = "returned" =>
        \A i \in 1..N :
            (/\ task[i].extracted
             /\ task[i].out.kind = "ret"
             /\ Adapter(task[i]) = "iga") =>
                LET cand == IgaPriceText(PageAt(requests[i].url))
                IN  /\ results[i].status = "success" =>
                           /\ cand # None
                           /\ Len(cand) < 20
                           /\ cand = Strip(cand)
                           /\ results[i].price = IgaParse(cand)
                    /\ results[i].message.pre = "Could not parse price from text: " =>
                           /\ results[i].message.arg = cand
                           /\ Len(cand) < 20

\* The first selector finds a text of 27 characters with a "$" in it; the
\* adapter passes over it and takes the text of the second selector.
C32_Witness ==
    /\ pc = "returned"
    /\ requests = <<Request("big", Txt_IGA)>>
    /\ task[1].extracted
    /\ PgBig.sel[1] = <<T_Long>>
    /\ Contains(T_Long, <<"$">>)
    /\ Len(Strip(T_Long)) >= 20
    /\ IgaPriceText(PgBig) = T_Big
    /\ results[1].status = "success"

\* C33: the IGA adapter falls back from its selectors to path-based queries
\* and to a regex scan of the page markup: a page on which no selector
\* gives a candidate but whose markup holds a "$" amount in [0.01, 999.99]
\* yields a 'success' result.
C33_MarkupFallback ==
    pc = "returned" =>
        \A i \in 1..N :
            LET pg == PageAt(requests[i].url)
            IN  (/\ task[i].extracted
                 /\ task[i].out.kind = "ret"
                 /\ Adapter(task[i]) = "iga"
                 /\ IgaPriceText(pg) = None
                 /\ pg.all # RaisedList
                 /\ \E k \in 1..Len(pg.all) :
                       /\ Truthy(pg.all[k])
                       /\ clean_price_text(pg.all[k]) # NoPrice) =>
                    results[i].status = "success"

\* C33, amended: the IGA adapter has one strategy, the list of selectors
\* tried in order (the known-good selector first, the generic ones after):
\* its result comes from the first element, in selector order then document
\* order, whose text has a "$" and fewer than 20 characters, a selector
\* being abandoned at a call that raises; when no selector gives such a
\* text the result is the error 'Price element not found on page', whatever
\* the markup of the page holds.
C33_IgaSelectorsOnly ==
    pc = "returned" =>
        \A i \in 1..N :
            (/\ task[i].extracted
             /\ task[i].out.kind = "ret"
             /\ Adapter(task[i]) = "iga") =>
                LET sel        == PageAt(requests[i].url).sel
                    good(k, j) == /\ sel[k] # RaisedList
                                  /\ \A m \in 1..j : sel[k][m] # Raised
                                  /\ sel[k][j] # None
                                  /\ \E c \in 1..Len(sel[k][j]) : sel[k][j][c] = "$"
                                  /\ Len(Strip(sel[k][j])) < 20
                    pos        == UNION {{<<k, j>> : j \in {m \in 1..Len(sel[k]) : good(k, m)}} :
                                            k \in 1..Len(sel)}
                    first      == CHOOSE p \in pos :
                                     \A q \in pos : \/ p[1] < q[1]
                                                     \/ (p[1] = q[1] /\ p[2] <= q[2])
                    cand       == Strip(sel[first[1]][first[2]])
                IN  IF pos = {}
                    THEN /\ results[i].status = "error"
                         /\ results[i].price = NoPrice
                         /\ results[i].message =
                                Msg("Price element not found on page", <<>>)
                    ELSE IF SearchDollarLoose(cand) # NoMatch
                    THEN /\ results[i].status = "success"
                         /\ results[i].price = <<FloatOf(SearchDollarLoose(cand))>>
                    ELSE /\ results[i].status = "error"
                         /\ results[i].message =
                                Msg("Could not parse price from text: ", cand)

\* No selector matches on the page whose price is in its embedded data and
\* in the text "was $5.00": the IGA adapter reports a missing element.
C33_Witness ==
    /\ pc = "returned"
    /\ requests = <<Request("json", Txt_IGA)>>
    /\ task[1].extracted
    /\ PgJson.sel = <<>>
    /\ clean_price_text(PgJson.all[2]) = <<5 * Scale>>
    /\ results[1].status = "error"
    /\ results[1].message = Msg("Price element not found on page", <<>>)

\* C34: the first strategy of the Woolworths adapter rejects the text of the
\* price-lead element when it contains "/" or a promotional keyword ('save',
\* 'was'), and takes it only when it carries a "$" amount inside the band
\* of current prices (2.00 to 5.00); a rejected text is never parsed into
\* the result, which then comes from the fallback scan alone.
C34_LeadValidated ==
    pc = "returned" =>
        \A i \in 1..N :
            (/\ task[i].extracted
             /\ task[i].out.kind = "ret"
             /\ Adapter(task[i]) = "woolworths") =>
                LET pg       == PageAt(requests[i].url)
                    lead     == pg.lead
                    amount   == SearchPrefixed(lead, <<"$">>, FALSE, TRUE)
                    rejected ==
                        \/ lead = Raised
                        \/ lead = None
                        \/ Contains(lead, <<"/">>)
                        \/ Contains(StrLower(lead), <<"s", "a", "v", "e">>)
                        \/ Contains(StrLower(lead), <<"w", "a", "s">>)
                        \/ amount = NoMatch
                        \/ FloatOf(amount) < 2 * Scale
                        \/ FloatOf(amount) > 5 * Scale
                    s2       == WoolStrategyTexts(pg)[2]
                    initial  == InitialResult(Txt_Woolworths)
                IN  rejected =>
                        results[i] =
                            IF s2 = None \/ s2 = <<>>
                            THEN WithMessage(initial, "Price element not found", <<>>)
                            ELSE IF clean_price_text(s2) # NoPrice
                            THEN Success(initial, clean_price_text(s2)[1])
                            ELSE WithMessage(initial,
                                     "Could not parse price from text: ", s2)

\* C35: when the Woolworths adapter falls back to the scan of generic text
\* elements, it collects the texts that carry a "$" amount in the band of
\* current prices and are not promotional, and returns the lowest of their
\* values, not the first in document order.
C35_LowestCandidate ==
    pc = "returned" =>
        \A i \in 1..N :
            (/\ task[i].extracted
             /\ task[i].out.kind = "ret"
             /\ Adapter(task[i]) = "woolworths") =>
                LET pg        == PageAt(requests[i].url)
                    amount(k) == SearchPrefixed(pg.all[k], <<"$">>, FALSE, TRUE)
                    plausible ==
                        {k \in 1..Len(pg.all) :
                            /\ Truthy(pg.all[k])
                            /\ amount(k) # NoMatch
                            /\ 2 * Scale <= FloatOf(amount(k))
                            /\ FloatOf(amount(k)) <= 5 * Scale
                            /\ ~Contains(StrLower(pg.all[k]), <<"s", "a", "v", "e">>)
                            /\ ~Contains(StrLower(pg.all[k]), <<"w", "a", "s">>)}
                    lowest    == CHOOSE k \in plausible :
                                    \A j \in plausible :
                                        FloatOf(amount(k)) <= FloatOf(amount(j))
                IN  (/\ Falsy(WoolStrategyTexts(pg)[1])
                     /\ pg.all # RaisedList
                     /\ plausible # {}) =>
                        /\ results[i].status = "success"
                        /\ results[i].price = <<FloatOf(amount(lowest))>>

\* C36: every result scrape_prices_concurrently or get_live_price_sync
\* returns has exactly the fields price, currency, status, message and
\* store, its currency is "$", its status 'success' or 'error', its price a
\* number or nothing, and its message is not empty.
C36_WellFormedResult ==
    LET WellFormed(r) ==
            /\ DOMAIN r = {"price", "currency", "status", "message", "store"}
            /\ r.currency = "$"
            /\ r.status \in {"success", "error"}
            /\ r.price = NoPrice \/ (Len(r.price) = 1 /\ r.price[1] \in Nat)
            /\ r.message.pre # "" \/ r.message.arg # <<>>
    IN  /\ pc = "returned" => \A i \in 1..Len(results) : WellFormed(results[i])
        /\ sync.pc = "done" => WellFormed(sync.result)

\* get_live_price_sync returned the result of an adapter whose navigation
\* failed: the except clause of the adapter wrote the message.
C36_Witness ==
    /\ sync.pc = "done"
    /\ task[1].nav = "failed"
    /\ task[1].out.kind = "ret"
    /\ sync.result.status = "error"
    /\ sync.result.message = Msg("Error: ", E_Goto)

\* C37: get_live_price_sync never raises: once the batch of its request has
\* ended it returns, and what it returns is the one result of
\* scrape_prices_concurrently, or, when that call raised, a result with
\* status 'error', no price and the store it was given.
C37_SyncNeverRaises ==
    /\ sync.pc # "raised"
    /\ (sync.pc = "called" /\ pc \in {"returned", "raised"}) => ENABLED SyncReturn
    /\ sync.pc = "done" =>
          \/ /\ pc = "returned"
             /\ Len(results) = 1
             /\ sync.result = results[1]
          \/ /\ pc = "raised"
             /\ sync.result.status = "error"
             /\ sync.result.price = NoPrice
             /\ sync.result.store = requests[1].store

\* The launch of the browser failed for the store "coles IGA":
\* get_live_price_sync returned an error result with that store.
C37_Witness ==
    /\ sync.pc = "done"
    /\ launch = "failed"
    /\ pc = "raised"
    /\ requests[1].store = S_Both
    /\ sync.result = AsyncScraperError(E_Launch, S_Both)

\* C38: the Coles adapter visits the homepage before the product page; when
\* the visit fails the adapter still navigates to the product URL and, if
\* that succeeds, runs its strategies and returns their result; when the
\* navigation to the product URL fails no strategy runs and the result of
\* the request has status 'error' and no price.  The other adapters do not
\* visit a homepage.
C38_HomepageTolerated ==
    \A i \in 1..N :
        task[i].adapters # <<>> =>
            IF Adapter(task[i]) = "coles"
            THEN /\ task[i].attempts > 0 =>
                        /\ task[i].home \in {"ok", "failed"}
                        /\ task[i].navs = task[i].attempts + 1
                 /\ (/\ task[i].home = "failed"
                     /\ task[i].pc \in {"close_page", "close_context", "done"}) =>
                        task[i].attempts = 1
                 /\ (task[i].home = "failed" /\ task[i].pc = "goto") =>
                        ENABLED GotoOk(i)
                 /\ (/\ pc = "returned"
                     /\ task[i].home = "failed"
                     /\ task[i].extracted
                     /\ task[i].out.kind = "ret") =>
                        results[i] = AdapterResult("coles", requests[i].url)
                 /\ task[i].nav = "failed" =>
                        /\ ~task[i].extracted
                        /\ pc = "returned" =>
                               /\ results[i].status = "error"
                               /\ results[i].price = NoPrice
            ELSE task[i].home = "none" /\ task[i].navs = task[i].attempts

\* The visit of the homepage failed, the product page loaded, and the
\* request returned the price of the page.
C38_Witness ==
    /\ pc = "returned"
    /\ requests = <<Request("price", Txt_Coles)>>
    /\ task[1].home = "failed"
    /\ task[1].nav = "ok"
    /\ task[1].navs = 2
    /\ results[1].status = "success"
    /\ results[1].price = <<1234 * (Scale \div 100)>>

\* C39: provided every browser operation returns or raises, every call of
\* scrape_prices_concurrently on a finite list and every call of a modal
\* handler terminates, and no step is retried unboundedly: an adapter call
\* navigates at most twice (once to the product URL), a modal handler
\* enters each of its sub-strategies at most once, tries each selector of
\* a list at most once, and presses Escape and clicks outside at most once.
Terminated ==
    /\ pc \in {"returned", "raised"}
    /\ \A i \in 1..N : task[i].pc \in {"none", "done"}
    /\ modal.pc \in {"idle", "returned"}

BoundedSteps ==
    /\ \A i \in 1..N : /\ task[i].navs <= 2
                        /\ task[i].attempts <= 1
    /\ browserCloses <= 1
    /\ Len(modal.steps) <= 4
    /\ \A a, b \in 1..Len(modal.steps) :
           modal.steps[a] = modal.steps[b] => a = b
    /\ InList => modal.k \in 1..ListLen(modal.handler, modal.pc)
    /\ modal.clicks <= NumGuest + NumIgaClose + NumWoolClose + NumPrivacy
    /\ modal.keys <= 1
    /\ modal.bodyClicks <= 1

C39_Terminates == []BoundedSteps /\ <>[]Terminated

\* A batch of two requests returned: both coroutines navigated to their
\* product URL once and are done, and the browser is closed.
C39_Witness ==
    /\ pc = "returned"
    /\ N = 2
    /\ \A i \in 1..N : task[i].pc = "done" /\ task[i].attempts = 1
    /\ browser = "closed"
    /\ Terminated

====
